---- MODULE Spec2Model ----
(***************************************************************************)
(* A model of reddit-nntp: the NNTP reader session (nntp/server.go,        *)
(* nntp/list.go), the spool facade with its row-id cache (spool/spool.go,  *)
(* spool/cache.go) and the SQL data-access layer (spool/store/db.go).      *)
(*                                                                         *)
(* Strings that the code inspects (command lines, arguments, group names,  *)
(* message-ids) are sequences of one-character strings, so that parsing    *)
(* (SplitN, ToUpper, Atoi, isMessageID) is computed as the code does it.   *)
(* A reply line is a record [fmt, args]: the format string of the          *)
(* PrintfLine / Sprintf call and its arguments in call order.              *)
(***************************************************************************)
EXTENDS Integers, Sequences, FiniteSets, TLC

VARIABLES
    spool,        \* rows of table spool, in rowid (insertion) order
    groups,       \* rows of table groups, in insertion order
    rowIDCache,   \* Spool.rowIDCache: group -> cacheEntry
    now,          \* wall clock, seconds
    locals,       \* Server.locals: GROUP_KEY / ARTICLE_KEY -> value
    lastLine,     \* the command line the processor handled last
    reply,        \* the lines written to the connection for lastLine
    crashed,      \* the process died of a run-time panic
    lookup,       \* the last call of ArticleNumToRowIDCached and its result
    lookups,      \* each concurrent caller of Spool.GetRowIDsFromCache: position and locals
    queriedAt,    \* per group, the time of the query that produced the stored entry
    peer,         \* the Server of a second connection: its locals
    crawl,        \* the crawling run of main: Spool.prefix and the goroutines' positions
    producers,    \* each caller of DB.InsertArticleRecord: position and result
    rd,           \* readerLoop: its position
    mn,           \* Server.Process: its position
    pr,           \* processLoop: its position
    input,        \* the lines the client has sent, in order
    eof,          \* the client has closed its side of the transport
    nread,        \* number of lines ReadLine has returned so far
    lineChan,     \* index of the line a blocked reader offers, or NoLine
    requests,     \* index of the line a blocked main loop offers, or NoLine
    cur,          \* the line the processor is answering, and the parts left
    out,          \* everything written to the transport, in order
    handled,      \* the lines the processor took, in order
    cancelled,    \* the session's context is cancelled
    connClosed,   \* Server.Close has run
    writeErr      \* a write to the transport has failed; the writer keeps the error

vars == <<spool, groups, rowIDCache, now, locals, lastLine, reply, crashed,
          lookup, producers, lookups, queriedAt, peer, crawl, rd, mn, pr, input, eof, nread, lineChan, requests, cur, out,
          handled, cancelled, connClosed, writeErr>>

sessVars == <<rd, mn, pr, input, eof, nread, lineChan, requests, cur, out,
              handled, cancelled, connClosed, writeErr>>

----------------------------------------------------------------------------
(* Bounds of the model *)

MaxRows == 2
MaxPostedAt == 2
MaxTime == 6
MaxInput == 2

(* Program constants *)

GROUP_KEY == 0
ARTICLE_KEY == 1
CMD_WORD_LIMIT == 2048
ROWID_TTL == 5
POSTING_PERMITTED == 0
POSTING_NONPERMITTED == 1
POSTING_MODERATED == 2

\* Go's uint is 64 bits wide; TLC's integers are 32 bits wide, so the model
\* wraps at 2^30: what matters is that uint(-1) exceeds every list length.
UintModulus == 2^30

----------------------------------------------------------------------------
(* Characters and strings *)

Lower == <<"a","b","c","d","e","f","g","h","i","j","k","l","m",
           "n","o","p","q","r","s","t","u","v","w","x","y","z">>
Upper == <<"A","B","C","D","E","F","G","H","I","J","K","L","M",
           "N","O","P","Q","R","S","T","U","V","W","X","Y","Z">>
Digits == <<"0","1","2","3","4","5","6","7","8","9">>

ToUpperChar(c) ==
    IF \E i \in 1..Len(Lower) : Lower[i] = c
    THEN Upper[CHOOSE i \in 1..Len(Lower) : Lower[i] = c]
    ELSE c

ToUpper(s) == [i \in 1..Len(s) |-> ToUpperChar(s[i])]

IsDigit(c) == \E i \in 1..Len(Digits) : Digits[i] = c
DigitVal(c) == (CHOOSE i \in 1..Len(Digits) : Digits[i] = c) - 1

RECURSIVE DigitsValue(_)
DigitsValue(s) ==
    IF s = <<>> THEN 0
    ELSE 10 * DigitsValue(SubSeq(s, 1, Len(s) - 1)) + DigitVal(s[Len(s)])

\* strconv.Atoi: an optional sign, then one or more decimal digits.
Atoi(s) ==
    LET signed == s # <<>> /\ s[1] \in {"+", "-"}
        body == IF signed THEN Tail(s) ELSE s
    IN  IF body = <<>> \/ \E i \in 1..Len(body) : ~IsDigit(body[i])
        THEN [ok |-> FALSE, val |-> 0]
        ELSE [ok |-> TRUE,
              val |-> IF signed /\ s[1] = "-" THEN 0 - DigitsValue(body)
                      ELSE DigitsValue(body)]

\* the conversion uint(n) of an int
UintOf(n) == n % UintModulus

\* strings.SplitN(s, sep, n) for a one-character separator and n > 0
RECURSIVE SplitN(_, _, _)
SplitN(s, sep, n) ==
    IF n = 1 \/ ~(\E i \in 1..Len(s) : s[i] = sep) THEN <<s>>
    ELSE LET i == CHOOSE k \in 1..Len(s) :
                      s[k] = sep /\ \A j \in 1..(k - 1) : s[j] # sep
         IN  <<SubSeq(s, 1, i - 1)>> \o SplitN(SubSeq(s, i + 1, Len(s)), sep, n - 1)

ContainsRune(s, c) == \E i \in 1..Len(s) : s[i] = c

isMessageID(s) ==
    IF Len(s) = 0 THEN FALSE
    ELSE s[1] = "<" /\ s[Len(s)] = ">"

parseLine(line) ==
    LET splits == SplitN(line, " ", CMD_WORD_LIMIT)
    IN  [cmd |-> ToUpper(splits[1]), args |-> Tail(splits)]

----------------------------------------------------------------------------
(* sync.Map *)

MapLoad(m, k) == IF k \in DOMAIN m THEN [ok |-> TRUE, v |-> m[k]]
                 ELSE [ok |-> FALSE, v |-> <<>>]
MapStore(m, k, v) == [x \in (DOMAIN m) \cup {k} |-> IF x = k THEN v ELSE m[x]]
EmptyMap == [x \in {} |-> 0]

curGroup(l) == IF GROUP_KEY \in DOMAIN l THEN l[GROUP_KEY] ELSE <<>>
setCurGroup(l, group) == MapStore(l, GROUP_KEY, group)
curArticleNum(l) == IF ARTICLE_KEY \in DOMAIN l THEN l[ARTICLE_KEY] ELSE 0
setCurArticleNum(l, aNum) == MapStore(l, ARTICLE_KEY, aNum)

----------------------------------------------------------------------------
(* The client's vocabulary *)

G1 == <<"g", "1">>
G2 == <<"g", "2">>
M1 == <<"<", "a", ">">>
M2 == <<"<", "b", ">">>

GX == <<"g", "x">>

\* the subreddits of the configuration; gx is a name only clients use
GroupNames == {G1, G2}
MsgIDs == {M1, M2}

\* The records the crawler may hand to InsertArticleRecord: <a> is a post of
\* g1; <b> is a comment on <a> (in g1, as commentToArticle puts a comment in
\* its post's subreddit) or a post of g2.
ArticleRecords ==
    {r \in [posted_at : 1..MaxPostedAt, newsgroup : GroupNames,
            message_id : MsgIDs, parent_id : {<<>>, M1}] :
        /\ r.message_id = M1 => r.newsgroup = G1 /\ r.parent_id = <<>>
        /\ r.message_id = M2 => (r.parent_id = M1 <=> r.newsgroup = G1)}

----------------------------------------------------------------------------
(* Data-access layer: spool/store/db.go *)

\* an exists query that finds no row
DoesMessageIDExist_none(rows, msgID) == FALSE

DoesMessageIDExist(rows, msgID) ==
    Cardinality({i \in 1..Len(rows) : rows[i].message_id = msgID}) > 0

\* The exists-check and the INSERT of one call, with no other writer between
\* them.
InsertArticleRecord(rows, ar) ==
    IF DoesMessageIDExist(rows, ar.message_id) THEN rows ELSE Append(rows, ar)

DoesGroupMetadataExist(grps, name) ==
    Cardinality({i \in 1..Len(grps) : grps[i].name = name}) > 0

\* an insert that does not look for the name first
InsertGroupMetadata_always(grps, gm) == Append(grps, gm)

InsertGroupMetadata(grps, gm) ==
    IF DoesGroupMetadataExist(grps, gm.name) THEN grps ELSE Append(grps, gm)

FetchNewsgroups(grps) == [i \in 1..Len(grps) |-> grps[i].name]

GroupArticleCount(rows, group) ==
    Cardinality({i \in 1..Len(rows) : rows[i].newsgroup = group})

\* The orders in which "ORDER BY posted_at" may deliver the rows of the
\* table: every permutation of the rowids that is ascending in posted_at.
\* SQL leaves the order of rows with equal posted_at open.
PostedAtOrders(rows) ==
    {p \in [1..Len(rows) -> 1..Len(rows)] :
        /\ \A i, j \in 1..Len(rows) : i # j => p[i] # p[j]
        /\ \A i, j \in 1..Len(rows) :
               i < j => rows[p[i]].posted_at <= rows[p[j]].posted_at}

\* SELECT rowid FROM spool WHERE newsgroup = ? ORDER BY posted_at, the
\* table being delivered in order ord.
GetRowIDs(rows, group, ord) ==
    SelectSeq(ord, LAMBDA id : rows[id].newsgroup = group)

GetAllRowIDs(rows, group, ord) ==
    SelectSeq(ord, LAMBDA id : rows[id].newsgroup = group)

NilHeader == [nil |-> TRUE]

\* store.Header of a row (nil when no row has the rowid)
DBGetHeaderByRowID(rows, rowID) ==
    IF rowID \in 1..Len(rows)
    THEN [nil |-> FALSE, PostedAt |-> rows[rowID].posted_at,
          Newsgroup |-> rows[rowID].newsgroup, MsgID |-> rows[rowID].message_id,
          ParentID |-> rows[rowID].parent_id]
    ELSE NilHeader

DBGetHeaderByMsgID(rows, msgID) ==
    IF \E i \in 1..Len(rows) : rows[i].message_id = msgID
    THEN DBGetHeaderByRowID(rows,
             CHOOSE i \in 1..Len(rows) : rows[i].message_id = msgID)
    ELSE NilHeader

----------------------------------------------------------------------------
(* Row-id cache: spool/cache.go *)

\* The result of a lookup at time t: the row ids returned and the cache
\* after it. One call, no other lookup of the group in between. A stored
\* entry's rowIDs is never nil: GetRowIDs returns make([]RowID, 0).
GetRowIDsFromCache(cache, t, rows, group, ord) ==
    LET l == MapLoad(cache, group)
        cacheHit == IF l.ok THEN t - l.v.lastFetched <= ROWID_TTL ELSE FALSE
    IN  IF cacheHit
        THEN [rowIDs |-> l.v.rowIDs, cache |-> cache]
        ELSE LET fetchTime == t
                 rowIDs == GetRowIDs(rows, group, ord)
                 newEntry == [rowIDs |-> rowIDs, lastFetched |-> fetchTime]
             IN  IF ~l.ok
                 THEN [rowIDs |-> rowIDs, cache |-> MapStore(cache, group, newEntry)]
                 ELSE IF fetchTime > l.v.lastFetched
                      THEN [rowIDs |-> rowIDs,
                            cache |-> MapStore(cache, group, newEntry)]
                      ELSE [rowIDs |-> rowIDs, cache |-> cache]

\* a hit test that takes an entry of exactly ROWID_TTL for expired
cacheHit_strict(l, t) == l.ok /\ t - l.v.lastFetched < ROWID_TTL

\* a hit test that never lets an entry expire
cacheHit_always(l, t) == l.ok

\* cacheHit of GetRowIDsFromCache, for the loaded entry l at time t
cacheHit(l, t) == l.ok /\ t - l.v.lastFetched <= ROWID_TTL

\* err is "nil", "general" or "ErrArticleNumNotFound"
\* a lookup that answers a number beyond the list with the last row
ArticleNumToRowIDCached_last(cache, t, rows, group, articleNum, ord) ==
    IF articleNum < 1
    THEN [err |-> "general", rowID |-> 0, cache |-> cache]
    ELSE LET r == GetRowIDsFromCache(cache, t, rows, group, ord)
         IN  IF Len(r.rowIDs) = 0
             THEN [err |-> "general", rowID |-> 0, cache |-> r.cache]
             ELSE IF Len(r.rowIDs) < articleNum
                  THEN [err |-> "nil", rowID |-> r.rowIDs[Len(r.rowIDs)],
                        cache |-> r.cache]
                  ELSE [err |-> "nil", rowID |-> r.rowIDs[articleNum],
                        cache |-> r.cache]

ArticleNumToRowIDCached(cache, t, rows, group, articleNum, ord) ==
    IF articleNum < 1
    THEN [err |-> "general", rowID |-> 0, cache |-> cache]
    ELSE LET r == GetRowIDsFromCache(cache, t, rows, group, ord)
         IN  IF Len(r.rowIDs) = 0
             THEN [err |-> "general", rowID |-> 0, cache |-> r.cache]
             ELSE IF Len(r.rowIDs) < articleNum
                  THEN [err |-> "ErrArticleNumNotFound", rowID |-> 0,
                        cache |-> r.cache]
                  ELSE [err |-> "nil", rowID |-> r.rowIDs[articleNum],
                        cache |-> r.cache]

----------------------------------------------------------------------------
(* Spool facade: spool/spool.go *)

\* data.Header built from a store.Header
ToDataHeader(h) ==
    [nil |-> FALSE, PostedAt |-> h.PostedAt, Newsgroup |-> h.Newsgroup,
     MsgID |-> h.MsgID, References |-> <<h.ParentID>>]

\* (header, err): header may be nil with err nil
GetHeaderByNGNum(cache, t, rows, group, articleNum, ord) ==
    LET r == ArticleNumToRowIDCached(cache, t, rows, group, articleNum, ord)
    IN  IF r.err # "nil"
        THEN IF r.err = "ErrArticleNumNotFound"
             THEN [header |-> NilHeader, err |-> FALSE, cache |-> r.cache]
             ELSE [header |-> NilHeader, err |-> TRUE, cache |-> r.cache]
        ELSE LET dbHeader == DBGetHeaderByRowID(rows, r.rowID)
             IN  IF dbHeader.nil
                 THEN [header |-> NilHeader, err |-> FALSE, cache |-> r.cache]
                 ELSE [header |-> ToDataHeader(dbHeader), err |-> FALSE,
                       cache |-> r.cache]

\* The DAL answers (nil, nil) when no row has the message-id, and the facade
\* then reads dbHeader.PostedAt through the nil pointer: a run-time panic.
GetHeaderByMsgID(rows, msgID) ==
    LET dbHeader == DBGetHeaderByMsgID(rows, msgID)
    IN  IF dbHeader.nil
        THEN [panic |-> TRUE, header |-> NilHeader, err |-> FALSE]
        ELSE [panic |-> FALSE, header |-> ToDataHeader(dbHeader), err |-> FALSE]

\* make([]uint, len(rowIDs)) followed by append(nums, uint(i)) for each index
GetArticleNumsFromGroup(rows, group, ord) ==
    LET rowIDs == GetAllRowIDs(rows, group, ord)
    IN  IF Len(rowIDs) = 0
        THEN [err |-> TRUE, nums |-> <<>>]
        ELSE [err |-> FALSE,
              nums |-> [i \in 1..Len(rowIDs) |-> 0]
                       \o [i \in 1..Len(rowIDs) |-> i - 1]]

----------------------------------------------------------------------------
(* Reply writing: textproto.Conn.PrintfLine and DotWriter *)

Line(f, a) == [fmt |-> f, args |-> a]

\* PrintfLine appends one line to what the connection has received
PrintfLine(w, f, a) == Append(w, Line(f, a))

\* the line that DotWriter's Close adds after the payload
DotLine == Line(".", <<>>)
DotWriterClose(w) == Append(w, DotLine)

\* What a command handler did: the lines it wrote, the session state and
\* the cache it leaves, whether it panicked, whether the processor returns.
Result(w, l, c) ==
    [reply |-> w, locals |-> l, cache |-> c, panic |-> FALSE, quit |-> FALSE]
Panic(w, l, c) ==
    [reply |-> w, locals |-> l, cache |-> c, panic |-> TRUE, quit |-> FALSE]
Quit(w, l, c) ==
    [reply |-> w, locals |-> l, cache |-> c, panic |-> FALSE, quit |-> TRUE]

----------------------------------------------------------------------------
(* data.Header.Bytes: the unnamed source file of package data.  The From:  *)
(* and Subject: lines carry fields the model's rows do not have.           *)

HeaderBytes(h) ==
    << Line("Path: reddit!not-for-mail", <<>>),
       Line("Newsgroups: %s", <<h.Newsgroup>>),
       Line("Date: %s", <<h.PostedAt>>),
       Line("Message-ID: %s", <<h.MsgID>>) >>
    \o (IF Len(h.References) > 0
        THEN <<Line("References: %s", h.References)>>
        ELSE <<Line("", <<>>)>>)

----------------------------------------------------------------------------
(* Command handlers: nntp/server.go, nntp/list.go.  Writes to the          *)
(* connection succeed here.                                                *)

StatusLetter(status) ==
    IF status = POSTING_PERMITTED THEN "y"
    ELSE IF status = POSTING_NONPERMITTED THEN "n"
    ELSE IF status = POSTING_MODERATED THEN "m"
    ELSE "n"

\* a status line whose estimate is the high water mark
groupDataString_count(g, groupMode) ==
    IF groupMode
    THEN Line("%d %d %d %s", <<g.high, g.low, g.high, g.name>>)
    ELSE Line("%s %d %d %s", <<g.name, g.high, g.low, StatusLetter(g.status)>>)

groupDataString(g, groupMode) ==
    IF groupMode
    THEN LET est == g.high - g.low
         IN  Line("%d %d %d %s", <<est, g.low, g.high, g.name>>)
    ELSE Line("%s %d %d %s", <<g.name, g.high, g.low, StatusLetter(g.status)>>)

\* group data that gives an empty group the water marks of a filled one
groupDataOf_filled(group, count) ==
    [name |-> group, high |-> count, low |-> 1, status |-> POSTING_NONPERMITTED]

groupDataOf(group, count) ==
    IF count = 0
    THEN [name |-> group, high |-> 1, low |-> 0, status |-> POSTING_NONPERMITTED]
    ELSE [name |-> group, high |-> count, low |-> 1,
          status |-> POSTING_NONPERMITTED]

getGroupData(grps) ==
    [i \in 1..Len(grps) |-> groupDataOf(grps[i], GroupArticleCount(spool, grps[i]))]

printCapabilities ==
    Result(PrintfLine(PrintfLine(PrintfLine(<<>>,
               "101 Capability list:", <<>>), "READER", <<>>), "VERSION", <<>>),
           locals, rowIDCache)

printQuit == Quit(PrintfLine(<<>>, "205 Connection closing", <<>>), locals, rowIDCache)

printUnknown == Result(PrintfLine(<<>>, "500 Unknown command", <<>>), locals, rowIDCache)

\* a MODE READER that starts the session afresh
printMode_reset(args) ==
    IF Len(args) < 1 THEN printUnknown
    ELSE IF args[1] = <<"R", "E", "A", "D", "E", "R">>
         THEN Result(PrintfLine(<<>>, "201 Posting prohibited", <<>>),
                     EmptyMap, rowIDCache)
         ELSE Result(PrintfLine(<<>>, "500 Only READER is supported", <<>>),
                     locals, rowIDCache)

printMode(args) ==
    IF Len(args) < 1 THEN printUnknown
    ELSE IF args[1] = <<"R", "E", "A", "D", "E", "R">>
         THEN Result(PrintfLine(<<>>, "201 Posting prohibited", <<>>),
                     locals, rowIDCache)
         ELSE Result(PrintfLine(<<>>, "500 Only READER is supported", <<>>),
                     locals, rowIDCache)

handleGroup(group) ==
    LET count == GroupArticleCount(spool, group)
        grpData == groupDataOf(group, count)
        articlesFound == count # 0
        l1 == setCurGroup(locals, group)
        l2 == IF articlesFound THEN setCurArticleNum(l1, 1) ELSE l1
    IN  Result(PrintfLine(<<>>, "211 %s", <<groupDataString(grpData, TRUE)>>),
               l2, rowIDCache)

\* a GROUP case that selects the group without looking it up
caseGROUP_unchecked(args) ==
    IF Len(args) < 1
    THEN Result(PrintfLine(<<>>, "500 No group name provided", <<>>),
                setCurArticleNum(locals, 0), rowIDCache)
    ELSE handleGroup(args[1])

caseGROUP(args) ==
    IF Len(args) < 1
    THEN Result(PrintfLine(<<>>, "500 No group name provided", <<>>),
                locals, rowIDCache)
    ELSE LET group == args[1]
             newsgroups == FetchNewsgroups(groups)
             found == \E i \in 1..Len(newsgroups) : group = newsgroups[i]
         IN  IF ~found
             THEN Result(PrintfLine(<<>>, "411 No such newsgroup", <<>>),
                         locals, rowIDCache)
             ELSE handleGroup(group)

printHead(group, args, ord) ==
    IF Len(args) < 1
    THEN Result(PrintfLine(<<>>, "500 current article mode unsupported", <<>>),
                locals, rowIDCache)
    ELSE LET arg == args[1] IN
      IF Len(arg) = 0
      THEN Result(PrintfLine(<<>>, "500 could not parse line properly", <<>>),
                  locals, rowIDCache)
      ELSE IF isMessageID(arg)
      THEN LET r == GetHeaderByMsgID(spool, arg) IN
           IF r.panic THEN Panic(<<>>, locals, rowIDCache)
           ELSE IF r.err \/ r.header.nil
           THEN Result(PrintfLine(<<>>, "423 No article with that number", <<>>),
                       locals, rowIDCache)
           ELSE Result(DotWriterClose(
                         <<Line("221 %d %s", <<0, r.header.MsgID>>)>>
                         \o HeaderBytes(r.header)),
                       locals, rowIDCache)
      ELSE LET n == Atoi(arg) IN
           IF ~n.ok
           THEN Result(PrintfLine(<<>>, "500 could not parse argument properly",
                                  <<>>), locals, rowIDCache)
           ELSE LET r == GetHeaderByNGNum(rowIDCache, now, spool, group,
                                          UintOf(n.val), ord)
                IN  IF r.err \/ r.header.nil
                    THEN Result(PrintfLine(<<>>,
                                    "423 No article with that number", <<>>),
                                locals, r.cache)
                    ELSE Result(DotWriterClose(
                                  <<Line("221 %d %s", <<n.val, r.header.MsgID>>)>>
                                  \o HeaderBytes(r.header)),
                                locals, r.cache)

caseHEAD(args, ord) ==
    LET group == curGroup(locals)
    IN  IF Len(group) = 0
        THEN Result(PrintfLine(<<>>, "500 No active group set. Server error.",
                               <<>>), locals, rowIDCache)
        ELSE printHead(group, args, ord)

\* IMPLICIT_STAT, EXPLICIT_ANUM and EXPLICIT_MSGID of handleStat
StatQueryType(args) ==
    IF Len(args) = 0 THEN "IMPLICIT_STAT"
    ELSE IF isMessageID(args[1]) THEN "EXPLICIT_MSGID"
    ELSE "EXPLICIT_ANUM"

\* The part of handleStat after the 412 check; w holds what is written so far.
handleStatLookup(w, group, aNum0, args, ord) ==
    LET queryType == StatQueryType(args) IN
    IF queryType = "EXPLICIT_MSGID"
    THEN LET r == GetHeaderByMsgID(spool, args[1]) IN
         IF r.panic THEN Panic(w, locals, rowIDCache)
         ELSE IF r.err
         THEN Result(PrintfLine(w, "423 No article with that number", <<>>),
                     locals, rowIDCache)
         ELSE Result(PrintfLine(w, "223 0 %s", <<r.header.MsgID>>),
                     locals, rowIDCache)
    ELSE LET n == IF queryType = "EXPLICIT_ANUM" THEN Atoi(args[1])
                  ELSE [ok |-> TRUE, val |-> aNum0]
         IN  IF ~n.ok
             THEN Result(PrintfLine(w, "423 No article with that number", <<>>),
                         locals, rowIDCache)
             ELSE LET aNum == UintOf(n.val)
                      r == GetHeaderByNGNum(rowIDCache, now, spool, group, aNum, ord)
                  IN  IF r.err
                      THEN Result(PrintfLine(w, "423 No article with that number",
                                             <<>>), locals, r.cache)
                      \* header.MsgID is read whether or not header is nil
                      ELSE IF r.header.nil THEN Panic(w, locals, r.cache)
                      ELSE Result(PrintfLine(w, "223 %d %s",
                                             <<aNum, r.header.MsgID>>),
                                  locals, r.cache)

\* The 412 reply does not return: the lookup runs after it.
handleStat(group, aNum, args, ord) ==
    LET queryType == StatQueryType(args)
        w == IF queryType \in {"IMPLICIT_STAT", "EXPLICIT_ANUM"} /\ group = <<>>
             THEN PrintfLine(<<>>, "412 No Newsgroup Selected", <<>>)
             ELSE <<>>
    IN  handleStatLookup(w, group, aNum, args, ord)

caseSTAT(args, ord) ==
    handleStat(curGroup(locals), curArticleNum(locals), args, ord)

\* data.Article.Bytes: the header block, an empty line, the body
ArticleBytes(h) ==
    HeaderBytes(h) \o <<Line("", <<>>), Line("%s", <<"body", h.MsgID>>)>>

\* spool.GetArticleByNGNum / GetArticleByMsgID return the header with the
\* body, by the same lookups as GetHeaderByNGNum / GetHeaderByMsgID.
printArticle(group, args, ord) ==
    IF Len(args) < 1
    THEN Result(PrintfLine(<<>>, "500 current article mode unsupported", <<>>),
                locals, rowIDCache)
    ELSE LET arg == args[1] IN
      IF Len(arg) = 0
      THEN Result(PrintfLine(<<>>, "500 could not parse line properly", <<>>),
                  locals, rowIDCache)
      ELSE IF isMessageID(arg)
      THEN LET r == GetHeaderByMsgID(spool, arg) IN
           IF r.panic THEN Panic(<<>>, locals, rowIDCache)
           ELSE IF r.err \/ r.header.nil
           THEN Result(PrintfLine(<<>>, "423 No article with that number", <<>>),
                       locals, rowIDCache)
           ELSE Result(DotWriterClose(
                         <<Line("220 %d %s", <<0, r.header.MsgID>>)>>
                         \o ArticleBytes(r.header)),
                       locals, rowIDCache)
      ELSE LET n == Atoi(arg) IN
           IF ~n.ok
           THEN Result(PrintfLine(<<>>, "500 could not parse argument properly",
                                  <<>>), locals, rowIDCache)
           ELSE LET r == GetHeaderByNGNum(rowIDCache, now, spool, group,
                                          UintOf(n.val), ord)
                IN  IF r.err \/ r.header.nil
                    THEN Result(PrintfLine(<<>>,
                                    "423 No article with that number", <<>>),
                                locals, r.cache)
                    ELSE Result(DotWriterClose(
                                  <<Line("220 %d %s", <<n.val, r.header.MsgID>>)>>
                                  \o ArticleBytes(r.header)),
                                locals, r.cache)

caseARTICLE(args, ord) ==
    LET group == curGroup(locals)
    IN  IF Len(group) = 0
        THEN Result(PrintfLine(<<>>, "500 No active group set. Server error.",
                               <<>>), locals, rowIDCache)
        ELSE printArticle(group, args, ord)

CLOSED_RANGE == 0
HALF_OPEN_RANGE == 1
SINGLETON_RANGE == 2

\* the zero value of articleRange
ZeroRange == [low |-> 0, high |-> 0, class |-> CLOSED_RANGE, valid |-> FALSE]

parseArticleRange(rawRange) ==
    IF ContainsRune(rawRange, "-")
    THEN LET splits == SplitN(rawRange, "-", 2)
             low == Atoi(splits[1])
             closedRange == Len(splits) = 2 /\ Len(splits[2]) > 0
             high == IF closedRange THEN Atoi(splits[2]) ELSE [ok |-> TRUE, val |-> 0]
         IN  IF ~low.ok THEN [err |-> TRUE, rng |-> ZeroRange]
             ELSE IF ~high.ok THEN [err |-> TRUE, rng |-> ZeroRange]
             ELSE [err |-> FALSE,
                   rng |-> [low |-> UintOf(low.val),
                            high |-> IF closedRange THEN UintOf(high.val) ELSE 0,
                            class |-> IF closedRange THEN CLOSED_RANGE
                                      ELSE HALF_OPEN_RANGE,
                            valid |-> TRUE]]
    ELSE LET num == Atoi(rawRange)
         IN  IF ~num.ok THEN [err |-> TRUE, rng |-> ZeroRange]
             ELSE [err |-> FALSE,
                   rng |-> [low |-> UintOf(num.val), high |-> 0,
                            class |-> SINGLETON_RANGE, valid |-> TRUE]]

InRange(rng, aNum) ==
    IF rng.class = CLOSED_RANGE THEN aNum >= rng.low /\ aNum <= rng.high
    ELSE IF rng.class = HALF_OPEN_RANGE THEN aNum >= rng.low
    ELSE aNum = rng.low

\* (firstANum, err, lines written); err is the error of the write
handleListGroup(group, rng, ord) ==
    IF Len(group) < 1
    THEN [first |-> 0, err |-> FALSE,
          reply |-> PrintfLine(<<>>, "412 No newsgroup selected", <<>>)]
    ELSE LET a == GetArticleNumsFromGroup(spool, group, ord) IN
      IF a.err
      THEN [first |-> 0, err |-> FALSE,
            reply |-> PrintfLine(<<>>, "500 query to spool failed", <<>>)]
      ELSE IF Len(a.nums) = 0
      THEN [first |-> 0, err |-> FALSE,
            reply |-> PrintfLine(<<>>, "411 group not found", <<>>)]
      ELSE LET newNums == IF rng.valid
                          THEN SelectSeq(a.nums, LAMBDA aNum : InRange(rng, aNum))
                          ELSE a.nums
               min == IF Len(newNums) = 0 THEN 1 ELSE newNums[1]
               max == IF Len(newNums) = 0 THEN 0 ELSE newNums[Len(newNums)]
               span == IF Len(newNums) = 0 THEN 1 ELSE UintOf(max - min + 1)
           IN  [first |-> 1, err |-> FALSE,
                reply |-> DotWriterClose(
                    <<Line("211 %d %d %d list follows", <<span, min, max>>)>>
                    \o [i \in 1..Len(newNums) |-> Line("%d", <<newNums[i]>>)])]

\* a LISTGROUP case that never selects the group it lists
caseLISTGROUP_noSelect(args, ord) ==
    LET group == IF Len(args) < 1 THEN curGroup(locals) ELSE args[1]
    IN  IF group = <<>>
        THEN Result(PrintfLine(<<>>, "412 No Newsgroup Selected", <<>>),
                    locals, rowIDCache)
        ELSE Result(handleListGroup(group, ZeroRange, ord).reply, locals,
                    rowIDCache)

caseLISTGROUP(args, ord) ==
    LET explicitGroup == ~(Len(args) < 1)
        group == IF explicitGroup THEN args[1] ELSE curGroup(locals)
    IN  IF group = <<>>
        THEN Result(PrintfLine(<<>>, "412 No Newsgroup Selected", <<>>),
                    locals, rowIDCache)
        ELSE LET p == IF Len(args) >= 2 THEN parseArticleRange(args[2])
                      ELSE [err |-> FALSE, rng |-> ZeroRange]
             IN  IF p.err
                 THEN Result(PrintfLine(<<>>,
                                 "403 could not parse article range: %v",
                                 <<"err">>), locals, rowIDCache)
                 ELSE LET r == handleListGroup(group, p.rng, ord)
                      IN  IF ~r.err /\ explicitGroup
                          THEN Result(r.reply,
                                      setCurArticleNum(setCurGroup(locals, group),
                                                       r.first),
                                      rowIDCache)
                          ELSE Result(r.reply, locals, rowIDCache)

handleListActive(grps) ==
    LET datum == getGroupData(grps)
    IN  Result(DotWriterClose(
                 <<Line("215 list of newsgroups follows", <<>>)>>
                 \o [i \in 1..Len(datum) |-> groupDataString(datum[i], FALSE)]),
               locals, rowIDCache)

handleListNewsgroups(grps) ==
    Result(DotWriterClose(
             <<Line("215 information follows", <<>>)>>
             \o [i \in 1..Len(grps) |-> Line("%s", <<grps[i]>>)]),
           locals, rowIDCache)

handleList(args) ==
    LET mode == IF Len(args) = 0 THEN "ACTIVE_LIST"
                ELSE IF args[1] = <<"A", "C", "T", "I", "V", "E">>
                THEN "ACTIVE_LIST"
                ELSE IF args[1] = <<"N", "E", "W", "S", "G", "R", "O", "U", "P", "S">>
                THEN "NEWSGROUP_LIST"
                ELSE "UNRECOGNIZED_LIST"
    IN  IF mode = "UNRECOGNIZED_LIST"
        THEN Result(PrintfLine(<<>>, "503 This LIST argument is not supported",
                               <<>>), locals, rowIDCache)
        ELSE IF mode = "ACTIVE_LIST"
        THEN handleListActive(FetchNewsgroups(groups))
        ELSE handleListNewsgroups(FetchNewsgroups(groups))

----------------------------------------------------------------------------
(* NEWGROUPS: times as text *)

\* the days of month m of year y
daysIn(m, y) ==
    IF m = 2
    THEN (IF y % 4 = 0 /\ (y % 100 # 0 \/ y % 400 = 0) THEN 29 ELSE 28)
    ELSE IF m \in {4, 6, 9, 11} THEN 30 ELSE 31

\* time.Parse of value with the layout "20060102150405" (yearDigits = 4) or
\* "060102150405" (yearDigits = 2): fixed-width decimal fields, each within
\* its range; a fraction of a second may follow the seconds, nothing else.
\* A two-digit year from 69 on is in the 1900s, a smaller one in the 2000s.
timeParse(yearDigits, value) ==
    LET n == yearDigits + 10
        field(i) == DigitsValue(SubSeq(value, yearDigits + i, yearDigits + i + 1))
        yy == DigitsValue(SubSeq(value, 1, yearDigits))
        year == IF yearDigits = 4 THEN yy
                ELSE IF yy >= 69 THEN 1900 + yy ELSE 2000 + yy
        rest == SubSeq(value, n + 1, Len(value))
        fraction == /\ Len(rest) >= 2 /\ rest[1] \in {".", ","}
                    /\ \A i \in 2..Len(rest) : IsDigit(rest[i])
    IN  IF \/ Len(value) < n
           \/ \E i \in 1..n : i <= Len(value) /\ ~IsDigit(value[i])
           \/ ~(rest = <<>> \/ fraction)
        THEN [ok |-> FALSE, t |-> <<>>]
        ELSE IF \/ field(1) \notin 1..12
                \/ field(3) \notin 1..daysIn(field(1), year)
                \/ field(5) > 23 \/ field(7) > 59 \/ field(9) > 59
        THEN [ok |-> FALSE, t |-> <<>>]
        ELSE [ok |-> TRUE,
              t |-> <<year, field(1), field(3), field(5), field(7), field(9)>>]

\* n in decimal, padded with zeros to w digits
RECURSIVE Pad(_, _)
Pad(n, w) == IF w = 0 THEN <<>> ELSE Pad(n \div 10, w - 1) \o <<Digits[(n % 10) + 1]>>

\* t.Format(time.RFC3339) of a UTC time
FormatRFC3339(t) ==
    Pad(t[1], 4) \o <<"-">> \o Pad(t[2], 2) \o <<"-">> \o Pad(t[3], 2) \o <<"T">>
    \o Pad(t[4], 2) \o <<":">> \o Pad(t[5], 2) \o <<":">> \o Pad(t[6], 2) \o <<"Z">>

\* the byte of a character of an RFC 3339 text
ByteOf(c) ==
    IF IsDigit(c) THEN 48 + DigitVal(c)
    ELSE IF c = "-" THEN 45 ELSE IF c = ":" THEN 58
    ELSE IF c = "T" THEN 84 ELSE 90

\* a > b for two TEXT values of SQLite: byte by byte, a prefix being smaller
RECURSIVE TextGreater(_, _)
TextGreater(a, b) ==
    IF a = <<>> THEN FALSE
    ELSE IF b = <<>> THEN TRUE
    ELSE IF ByteOf(a[1]) # ByteOf(b[1]) THEN ByteOf(a[1]) > ByteOf(b[1])
    ELSE TextGreater(Tail(a), Tail(b))

----------------------------------------------------------------------------
(* The command lines a client sends *)

cCAPABILITIES == <<"C", "A", "P", "A", "B", "I", "L", "I", "T", "I", "E", "S">>
cQUIT == <<"Q", "U", "I", "T">>
cLIST == <<"L", "I", "S", "T">>
cGROUP == <<"G", "R", "O", "U", "P">>
cHEAD == <<"H", "E", "A", "D">>
cARTICLE == <<"A", "R", "T", "I", "C", "L", "E">>
cMODE == <<"M", "O", "D", "E">>
cLISTGROUP == <<"L", "I", "S", "T", "G", "R", "O", "U", "P">>
cSTAT == <<"S", "T", "A", "T">>
cNEWGROUPS == <<"N", "E", "W", "G", "R", "O", "U", "P", "S">>

RECURSIVE JoinArgs(_)
JoinArgs(args) ==
    IF args = <<>> THEN <<>>
    ELSE <<" ">> \o Head(args) \o JoinArgs(Tail(args))

\* the line made of a command word and its arguments, one space between
MkLine(word, args) == word \o JoinArgs(args)

NumberArgs == {<<"0">>, <<"1">>, <<"2">>, <<"-", "1">>, <<"x">>}
RangeArgs == {<<"1">>, <<"2">>, <<"1", "-">>, <<"0", "-", "1">>, <<"x", "-">>}

GroupLines ==
    {MkLine(cGROUP, a) : a \in {<<>>, <<G1>>, <<G2>>, <<GX>>, << <<>> >>}}
    \cup {MkLine(<<"g", "r", "o", "u", "p">>, <<G1>>)}
HeadLines ==
    {MkLine(cHEAD, a) :
        a \in {<<>>} \cup {<<n>> : n \in NumberArgs} \cup {<<m>> : m \in MsgIDs}}
StatLines ==
    {MkLine(cSTAT, a) :
        a \in {<<>>} \cup {<<n>> : n \in NumberArgs} \cup {<<m>> : m \in MsgIDs}}
ArticleLines ==
    {MkLine(cARTICLE, a) : a \in {<<>>, << <<"1">> >>, << <<"x">> >>, <<M2>>}}
ListGroupLines ==
    {MkLine(cLISTGROUP, a) :
        a \in {<<>>, <<G1>>, <<G2>>, <<GX>>} \cup {<<G1, r>> : r \in RangeArgs}}
ListLines ==
    {MkLine(cLIST, a) :
        a \in {<<>>, << <<"A", "C", "T", "I", "V", "E">> >>,
               << <<"N", "E", "W", "S", "G", "R", "O", "U", "P", "S">> >>,
               << <<"X">> >>}}
ModeLines ==
    {MkLine(cMODE, a) :
        a \in {<<>>, << <<"R", "E", "A", "D", "E", "R">> >>, << <<"X">> >>}}
OtherLines == {<<"P", "O", "S", "T">>}

\* a sequence of one-character strings for each character of a numeral
D8a == <<"2", "0", "2", "4", "0", "1", "0", "1">>
D8b == <<"2", "0", "2", "4", "0", "1", "0", "2">>
D6a == <<"2", "4", "0", "1", "0", "1">>
D6old == <<"9", "9", "0", "1", "0", "1">>
DBadMonth == <<"2", "0", "2", "4", "1", "3", "0", "1">>
DBadDay == <<"2", "0", "2", "3", "0", "2", "2", "9">>
D7 == <<"2", "0", "2", "4", "0", "1", "1">>
TNoon == <<"1", "2", "0", "0", "0", "0">>
TAfterNoon == <<"1", "2", "0", "0", "0", "1">>
TShort == <<"1", "2", "0", "0">>
TBadHour == <<"2", "4", "0", "0", "0", "0">>

\* NEWGROUPS with dates and times around the creation of g1 and of g2
NewGroupsLines ==
    {MkLine(cNEWGROUPS, a) :
        a \in {<<D8a, TNoon>>, <<D8a, TAfterNoon>>, <<D8b, TNoon>>, <<D6a, TNoon>>,
               <<D6old, TNoon>>, <<DBadMonth, TNoon>>, <<DBadDay, TNoon>>,
               <<D7, TNoon>>, <<D8a, TShort>>, <<D8a, TBadHour>>, <<D8a>>}}

\* the lines a client sends
ClientLines ==
    {cCAPABILITIES, cQUIT} \cup GroupLines \cup HeadLines \cup StatLines
    \cup ArticleLines \cup ListGroupLines \cup ListLines \cup ModeLines
    \cup OtherLines \cup {MkLine(cNEWGROUPS, <<D8a, TNoon>>)}

\* The lines of a client that browses groups: the article commands in their
\* plain form only.
BrowseLines ==
    {cCAPABILITIES, cQUIT} \cup GroupLines \cup ListGroupLines \cup ListLines
    \cup ModeLines \cup OtherLines
    \cup {MkLine(cHEAD, << <<"1">> >>), MkLine(cSTAT, <<>>),
          MkLine(cARTICLE, << <<"1">> >>), MkLine(cNEWGROUPS, <<D8a, TNoon>>)}

KnownCommands ==
    {cCAPABILITIES, cQUIT, cLIST, cGROUP, cHEAD, cARTICLE, cMODE, cNEWGROUPS,
     cLISTGROUP, cSTAT}

\* parseLine of every line of L
ParsedLines(L) == [line \in L |-> parseLine(line)]
Parsed == ParsedLines(ClientLines)
BrowseParsed == ParsedLines(BrowseLines)
NewsParsed == ParsedLines(NewGroupsLines \cup GroupLines)

\* the lines of the table P whose command word is cmd
LinesOf(P, cmd) == {line \in DOMAIN P : P[line].cmd = cmd}
UnknownLinesOf(P) == {line \in DOMAIN P : P[line].cmd \notin KnownCommands}

----------------------------------------------------------------------------
(* NEWGROUPS: the handler *)

\* a query that selects every group
FetchNewGroups_all(grps, dt) == [i \in 1..Len(grps) |-> grps[i].name]

\* SELECT name FROM groups WHERE date_created > ?
FetchNewGroups(grps, dt) ==
    LET fmtTime == FormatRFC3339(dt)
        new == SelectSeq(grps, LAMBDA g : TextGreater(g.date_created, fmtTime))
    IN  [i \in 1..Len(new) |-> new[i].name]

\* the time handleNewGroups parses from its arguments
groupTime(rawDate, rawTime) ==
    LET dateTime == rawDate \o rawTime
    IN  IF Len(rawDate) = 8 THEN timeParse(4, dateTime)
        ELSE IF Len(rawDate) = 6 THEN timeParse(2, dateTime)
        ELSE [ok |-> FALSE, t |-> <<>>]

\* groupTime of the arguments of every NEWGROUPS line of the clients
GroupTimes ==
    [a \in {<<SplitArgs[1], SplitArgs[2]>> :
               SplitArgs \in {NewsParsed[line].args : line \in NewGroupsLines}
                             \ {<< >>, <<D8a>>}} |->
        groupTime(a[1], a[2])]

handleNewGroups(rawDate, rawTime) ==
    LET parsed == GroupTimes[<<rawDate, rawTime>>]
    IN  IF ~parsed.ok
        THEN Result(PrintfLine(<<>>, "403 error parsing date format", <<>>),
                    locals, rowIDCache)
        ELSE LET datum == getGroupData(FetchNewGroups(groups, parsed.t))
             IN  Result(DotWriterClose(
                          <<Line("231 list of newsgroups follows", <<>>)>>
                          \o [i \in 1..Len(datum) |->
                                 groupDataString(datum[i], FALSE)]),
                        locals, rowIDCache)

caseNEWGROUPS(args) ==
    IF Len(args) < 2
    THEN Result(PrintfLine(<<>>, "403 not enough arguments provided to NEWGROUPS",
                           <<>>), locals, rowIDCache)
    ELSE handleNewGroups(args[1], args[2])

----------------------------------------------------------------------------
(* The session's processor, one command line per step, over the store *)

\* main exits before listening when the spool holds no article
ServerStarted == Len(spool) > 0

\* processLoop has returned: after QUIT, or with the process
SessionOver == crashed \/ pr = "done"

CanProcess == ServerStarted /\ ~SessionOver

Handled(line, res) ==
    /\ lastLine' = line
    /\ reply' = res.reply
    /\ locals' = res.locals
    /\ rowIDCache' = res.cache
    /\ crashed' = res.panic
    /\ pr' = IF res.quit \/ res.panic THEN "done" ELSE pr
    /\ UNCHANGED <<spool, groups, now, lookup, producers, lookups, queriedAt, peer, crawl>>
    /\ UNCHANGED <<rd, mn, input, eof, nread, lineChan, requests, cur, out,
                   handled, cancelled, connClosed,
                   writeErr>>

\* One action per case of processLoop's command switch; P is the table of
\* the lines the client may send.

DoCapabilities(P) ==
    /\ CanProcess
    /\ \E line \in LinesOf(P, cCAPABILITIES) : Handled(line, printCapabilities)

DoQuit(P) ==
    /\ CanProcess
    /\ \E line \in LinesOf(P, cQUIT) : Handled(line, printQuit)

DoList(P) ==
    /\ CanProcess
    /\ \E line \in LinesOf(P, cLIST) : Handled(line, handleList(P[line].args))

DoNewGroups(P) ==
    /\ CanProcess
    /\ \E line \in LinesOf(P, cNEWGROUPS) :
          Handled(line, caseNEWGROUPS(P[line].args))

DoGroup(P) ==
    /\ CanProcess
    /\ \E line \in LinesOf(P, cGROUP) : Handled(line, caseGROUP(P[line].args))

DoHead(P) ==
    /\ CanProcess
    /\ \E line \in LinesOf(P, cHEAD), ord \in PostedAtOrders(spool) :
          Handled(line, caseHEAD(P[line].args, ord))

DoArticle(P) ==
    /\ CanProcess
    /\ \E line \in LinesOf(P, cARTICLE), ord \in PostedAtOrders(spool) :
          Handled(line, caseARTICLE(P[line].args, ord))

DoMode(P) ==
    /\ CanProcess
    /\ \E line \in LinesOf(P, cMODE) : Handled(line, printMode(P[line].args))

DoListGroup(P) ==
    /\ CanProcess
    /\ \E line \in LinesOf(P, cLISTGROUP), ord \in PostedAtOrders(spool) :
          Handled(line, caseLISTGROUP(P[line].args, ord))

DoStat(P) ==
    /\ CanProcess
    /\ \E line \in LinesOf(P, cSTAT), ord \in PostedAtOrders(spool) :
          Handled(line, caseSTAT(P[line].args, ord))

\* the default case of the command switch
DoUnknown(P) ==
    /\ CanProcess
    /\ \E line \in UnknownLinesOf(P) : Handled(line, printUnknown)

\* the processor handles one line of L
Serve(P) ==
    \/ DoCapabilities(P) \/ DoQuit(P) \/ DoList(P) \/ DoGroup(P) \/ DoHead(P)
    \/ DoArticle(P) \/ DoMode(P) \/ DoNewGroups(P) \/ DoListGroup(P) \/ DoStat(P)
    \/ DoUnknown(P)

(* The crawler and the clock *)

CrawlerInsert ==
    /\ ~crashed
    /\ \E ar \in ArticleRecords :
          /\ Len(spool) < MaxRows \/ DoesMessageIDExist(spool, ar.message_id)
          /\ spool' = InsertArticleRecord(spool, ar)
    /\ UNCHANGED <<groups, rowIDCache, now, locals, lastLine, reply, crashed,
                   lookup, producers, lookups, queriedAt, peer, crawl>>
    /\ UNCHANGED sessVars

\* a second of wall-clock time passes
Tick ==
    /\ ~crashed
    /\ now < MaxTime
    /\ now' = now + 1
    /\ UNCHANGED <<spool, groups, rowIDCache, locals, lastLine, reply, crashed,
                   lookup, producers, lookups, queriedAt, peer, crawl>>
    /\ UNCHANGED sessVars

\* the callers of DB.InsertArticleRecord
Producers == {"p1", "p2"}

NoRecord == [posted_at |-> 0, newsgroup |-> <<>>, message_id |-> <<>>,
             parent_id |-> <<>>]

\* no caller is inside InsertArticleRecord, none has returned an error
NoProducers == [p \in Producers |-> [pc |-> "idle", ar |-> NoRecord, err |-> FALSE]]

\* the concurrent callers of Spool.GetRowIDsFromCache
Callers == {"c1", "c2"}

\* a caller outside GetRowIDsFromCache
IdleLookup == [pc |-> "idle", group |-> <<>>, fetchTime |-> 0, rowIDs |-> <<>>,
               qt |-> 0]

NoLookups == [c \in Callers |-> IdleLookup]

NeverQueried == [g \in GroupNames |-> 0]

\* the subreddits of the configuration, in order
Subreddits == << <<"A">>, <<"b">> >>

\* main has not begun to populate the spool: Spool.prefix is the empty
\* string that spool.New leaves, no addPostAndComments goroutine runs
NoCrawl == [prefix |-> <<>>, sub |-> 0, main |-> "idle", posts |-> 0,
            adders |-> [i \in 1..Len(Subreddits) |-> "none"]]

\* no second connection has been accepted
NoPeer == [accepted |-> FALSE, shared |-> FALSE, locals |-> EmptyMap,
           nilConn |-> FALSE, greeted |-> FALSE]

\* a Server whose locals field points to the map of the first connection
NewServer_sharedLocals ==
    [accepted |-> TRUE, shared |-> TRUE, locals |-> EmptyMap,
     nilConn |-> FALSE, greeted |-> FALSE]

\* NewServer: the Server of an accepted connection; its locals field points
\* to a sync.Map declared in the call, which no other Server can reach
NewServer ==
    [accepted |-> TRUE, shared |-> FALSE, locals |-> EmptyMap,
     nilConn |-> FALSE, greeted |-> FALSE]

NoLookup == [group |-> <<>>, num |-> 0, err |-> "none", rowID |-> 0,
             rowIDs |-> <<>>, msgID |-> <<>>, hit |-> FALSE]

\* Some session calls spool.ArticleNumToRowIDCached(group, articleNum), as
\* GetHeaderByNGNum and GetArticleByNGNum do.
Lookup ==
    /\ ServerStarted /\ ~crashed
    /\ \E group \in GroupNames, articleNum \in 0..(MaxRows + 1),
          ord \in PostedAtOrders(spool) :
          LET r == ArticleNumToRowIDCached(rowIDCache, now, spool, group,
                                           articleNum, ord)
              l == GetRowIDsFromCache(rowIDCache, now, spool, group, ord)
          IN  /\ rowIDCache' = r.cache
              /\ lookup' = [group |-> group, num |-> articleNum, err |-> r.err,
                            rowID |-> r.rowID, rowIDs |-> l.rowIDs,
                            msgID |-> IF r.err = "nil"
                                      THEN spool[r.rowID].message_id ELSE <<>>,
                            hit |-> cacheHit(MapLoad(rowIDCache, group), now)]
    /\ UNCHANGED <<spool, groups, now, locals, lastLine, reply, crashed,
                   producers, lookups, queriedAt, peer, crawl>>
    /\ UNCHANGED sessVars

NoLine == 0

SessionIdle ==
    /\ rd = "off" /\ mn = "start" /\ pr = "off"
    /\ input = <<>> /\ eof = FALSE /\ nread = 0
    /\ lineChan = NoLine /\ requests = NoLine
    /\ cur = [idx |-> NoLine, parts |-> <<>>, quit |-> FALSE]
    /\ out = <<>> /\ handled = <<>>
    /\ connClosed = FALSE /\ writeErr = FALSE

\* the UTC times at which the crawl added g1 and g2: year, month, day, hour,
\* minute, second
CreatedG1 == <<2024, 1, 1, 12, 0, 0>>
CreatedG2 == <<2024, 1, 2, 12, 0, 0>>

\* the rows of groups after a crawl of the configured subreddits
CrawledGroups ==
    <<[name |-> G1, date_created |-> FormatRFC3339(CreatedG1), days_retained |-> 30],
      [name |-> G2, date_created |-> FormatRFC3339(CreatedG2), days_retained |-> 30]>>

StoreInit ==
    /\ spool = <<>> /\ groups = CrawledGroups
    /\ rowIDCache = EmptyMap /\ now = 0
    /\ locals = EmptyMap
    /\ lastLine = <<>> /\ reply = <<>>
    /\ crashed = FALSE /\ lookup = NoLookup /\ producers = NoProducers
    /\ lookups = NoLookups /\ queriedAt = NeverQueried /\ peer = NoPeer /\ crawl = NoCrawl

Init == StoreInit /\ SessionIdle /\ cancelled = FALSE

----------------------------------------------------------------------------
(* One connection: Server.Process, readerLoop and processLoop, and the    *)
(* unbuffered channels lineChan and requests between them.                *)

\* a greeting that announces posting
POST_LINE_posting == "200 Posting allowed"

POST_LINE == "201 Posting prohibited"

\* The command switch of processLoop (NEWGROUPS is not a line of these
\* sessions).
processLine(cmd, ord) ==
    IF cmd.cmd = cCAPABILITIES THEN printCapabilities
    ELSE IF cmd.cmd = cQUIT THEN printQuit
    ELSE IF cmd.cmd = cLIST THEN handleList(cmd.args)
    ELSE IF cmd.cmd = cGROUP THEN caseGROUP(cmd.args)
    ELSE IF cmd.cmd = cHEAD THEN caseHEAD(cmd.args, ord)
    ELSE IF cmd.cmd = cARTICLE THEN caseARTICLE(cmd.args, ord)
    ELSE IF cmd.cmd = cMODE THEN printMode(cmd.args)
    ELSE IF cmd.cmd = cNEWGROUPS THEN caseNEWGROUPS(cmd.args)
    ELSE IF cmd.cmd = cLISTGROUP THEN caseLISTGROUP(cmd.args, ord)
    ELSE IF cmd.cmd = cSTAT THEN caseSTAT(cmd.args, ord)
    ELSE printUnknown

\* the lines the client of SpecSession sends; the empty line is one of them
SessionLines == {cCAPABILITIES, MkLine(cGROUP, <<G1>>), cQUIT, <<>>}
SessionParsed == ParsedLines(SessionLines)

storeVars == <<spool, groups, rowIDCache, now, locals, lastLine, reply, crashed,
               lookup, producers, lookups, queriedAt, peer, crawl>>

ClientSend ==
    /\ ~eof /\ Len(input) < MaxInput
    /\ \E line \in SessionLines : input' = Append(input, line)
    /\ UNCHANGED <<rd, mn, pr, eof, nread, lineChan, requests, cur, out, handled,
                   cancelled, connClosed,
                   writeErr>>
    /\ UNCHANGED storeVars

ClientClose ==
    /\ ~eof
    /\ eof' = TRUE
    /\ UNCHANGED <<rd, mn, pr, input, nread, lineChan, requests, cur, out,
                   handled, cancelled, connClosed,
                   writeErr>>
    /\ UNCHANGED storeVars

\* the context handed to Process is cancelled by its owner
Cancel ==
    /\ ~cancelled
    /\ cancelled' = TRUE
    /\ UNCHANGED <<rd, mn, pr, input, eof, nread, lineChan, requests, cur, out,
                   handled, connClosed,
                   writeErr>>
    /\ UNCHANGED storeVars

\* Process with ctx.Err() != nil: the deferred cancel and Close run
ProcessCancelled ==
    /\ mn = "start" /\ cancelled
    /\ mn' = "done" /\ connClosed' = TRUE
    /\ UNCHANGED <<rd, pr, input, eof, nread, lineChan, requests, cur, out,
                   handled, cancelled, writeErr>>
    /\ UNCHANGED storeVars

\* a write to the transport can fail once the client has closed its side
WriteCanFail == eof

\* s.conn.PrintfLine(POST_LINE); on a write error Process returns, and the
\* deferred cancel and Close run
ProcessGreet ==
    /\ mn = "start" /\ ~cancelled
    /\ \/ /\ out' = Append(out, [idx |-> 0, text |-> Line(POST_LINE, <<>>)])
          /\ mn' = "greeted"
          /\ UNCHANGED <<cancelled, connClosed, writeErr>>
       \/ /\ WriteCanFail
          /\ writeErr' = TRUE /\ mn' = "done"
          /\ cancelled' = TRUE /\ connClosed' = TRUE
          /\ out' = out
    /\ UNCHANGED <<rd, pr, input, eof, nread, lineChan, requests, cur, handled>>
    /\ UNCHANGED storeVars

\* go readerLoop(...); go processLoop(...)
ProcessSpawn ==
    /\ mn = "greeted"
    /\ mn' = "select" /\ rd' = "read" /\ pr' = "recv"
    /\ UNCHANGED <<input, eof, nread, lineChan, requests, cur, out, handled,
                   cancelled, connClosed,
                   writeErr>>
    /\ UNCHANGED storeVars

\* case line := <-lineChan: the reader's send and main's receive meet
ProcessRecvLine ==
    /\ mn = "select" /\ rd = "send"
    /\ mn' = "send" /\ requests' = lineChan
    /\ rd' = "read" /\ lineChan' = NoLine
    /\ UNCHANGED <<pr, input, eof, nread, cur, out, handled, cancelled,
                   connClosed,
                   writeErr>>
    /\ UNCHANGED storeVars

\* case <-ctx.Done(), <-doneReader, <-doneProcess: return; the deferred
\* close(requests), cancel and Close run
ProcessReturn ==
    /\ mn = "select"
    /\ cancelled \/ rd = "done" \/ pr = "done"
    /\ mn' = "done" /\ cancelled' = TRUE /\ connClosed' = TRUE
    /\ UNCHANGED <<rd, pr, input, eof, nread, lineChan, requests, cur, out,
                   handled, writeErr>>
    /\ UNCHANGED storeVars

\* conn.ReadLine returns a line
ReaderRead ==
    /\ rd = "read" /\ ~connClosed /\ nread < Len(input)
    /\ nread' = nread + 1
    /\ IF cancelled THEN rd' = "done" /\ lineChan' = lineChan
       ELSE IF Len(input[nread + 1]) = 0 THEN rd' = "read" /\ lineChan' = lineChan
       ELSE rd' = "send" /\ lineChan' = nread + 1
    /\ UNCHANGED <<mn, pr, input, eof, requests, cur, out, handled, cancelled,
                   connClosed,
                   writeErr>>
    /\ UNCHANGED storeVars

\* conn.ReadLine returns an error: end of input, or the closed connection
ReaderReturn ==
    /\ rd = "read"
    /\ connClosed \/ (eof /\ nread = Len(input))
    /\ rd' = "done"
    /\ UNCHANGED <<mn, pr, input, eof, nread, lineChan, requests, cur, out,
                   handled, cancelled, connClosed,
                   writeErr>>
    /\ UNCHANGED storeVars

\* a processor that would take the next line while a handler still writes
ProcessorWaits_whileWriting == pr \in {"recv", "write"}

\* the processor is at the select of its loop
ProcessorWaits == pr = "recv"

\* the handler of line idx has run, with result res; its writes follow
Taken(idx, res) ==
    /\ lastLine' = input[idx] /\ reply' = res.reply
    /\ locals' = res.locals /\ rowIDCache' = res.cache
    /\ crashed' = res.panic
    /\ cur' = [idx |-> idx, parts |-> res.reply, quit |-> res.quit]
    /\ handled' = Append(handled, [idx |-> idx, parts |-> Len(res.reply)])

\* case line := <-requests: main's send and the processor's receive meet,
\* and the handler of the line runs; its writes follow one by one
ProcessorRecv ==
    /\ ProcessorWaits /\ mn = "send"
    /\ \E ord \in PostedAtOrders(spool) :
          Taken(requests, processLine(SessionParsed[input[requests]], ord))
    /\ pr' = "write" /\ mn' = "select" /\ requests' = NoLine
    /\ UNCHANGED <<spool, groups, now, lookup, producers, lookups, queriedAt, peer, crawl>>
    /\ UNCHANGED <<rd, input, eof, nread, lineChan, out, cancelled, connClosed,
                   writeErr>>

\* one PrintfLine of the handler; when the write fails the handler returns
\* the error and writes nothing more
ProcessorWrite ==
    /\ pr = "write" /\ cur.parts # <<>>
    /\ \/ /\ ~connClosed /\ ~writeErr
          /\ out' = Append(out, [idx |-> cur.idx, text |-> Head(cur.parts)])
          /\ cur' = [cur EXCEPT !.parts = Tail(cur.parts)]
          /\ writeErr' = writeErr
       \/ /\ connClosed \/ writeErr \/ WriteCanFail
          /\ out' = out /\ cur' = [cur EXCEPT !.parts = <<>>]
          /\ writeErr' = TRUE
    /\ UNCHANGED <<rd, mn, pr, input, eof, nread, lineChan, requests, handled,
                   cancelled, connClosed>>
    /\ UNCHANGED storeVars

\* the handler has returned: back to the select, or return after QUIT
ProcessorNext ==
    /\ pr = "write" /\ cur.parts = <<>>
    /\ pr' = IF cur.quit THEN "done" ELSE "recv"
    /\ UNCHANGED <<rd, mn, input, eof, nread, lineChan, requests, cur, out,
                   handled, cancelled, connClosed,
                   writeErr>>
    /\ UNCHANGED storeVars

\* case <-ctx.Done(), or the empty line of the closed requests channel
ProcessorReturn ==
    /\ pr = "recv"
    /\ cancelled \/ mn = "done"
    /\ pr' = "done"
    /\ UNCHANGED <<rd, mn, input, eof, nread, lineChan, requests, cur, out,
                   handled, cancelled, connClosed,
                   writeErr>>
    /\ UNCHANGED storeVars

\* the spool the connections of SpecSession are served from
SessionSpool ==
    <<[posted_at |-> 1, newsgroup |-> G1, message_id |-> M1, parent_id |-> <<>>]>>

InitSession ==
    /\ spool = SessionSpool /\ groups = CrawledGroups
    /\ rowIDCache = EmptyMap /\ now = 0
    /\ locals = EmptyMap
    /\ lastLine = <<>> /\ reply = <<>>
    /\ crashed = FALSE /\ lookup = NoLookup /\ producers = NoProducers
    /\ lookups = NoLookups /\ queriedAt = NeverQueried /\ peer = NoPeer /\ crawl = NoCrawl
    /\ SessionIdle
    /\ cancelled \in BOOLEAN

NextSession ==
    \/ ClientSend \/ ClientClose \/ Cancel
    \/ ProcessCancelled \/ ProcessGreet \/ ProcessSpawn \/ ProcessRecvLine
    \/ ProcessReturn
    \/ ReaderRead \/ ReaderReturn
    \/ ProcessorRecv \/ ProcessorWrite \/ ProcessorNext \/ ProcessorReturn

SpecSession == InitSession /\ [][NextSession]_vars

\* A browsing session while the crawler inserts, within one ROWID_TTL.
Next == Serve(BrowseParsed) \/ CrawlerInsert

Spec == Init /\ [][Next]_vars

\* The spool facade under the crawler's inserts, as time passes.
NextCrawl == CrawlerInsert \/ Tick \/ Lookup

SpecCrawl == Init /\ [][NextCrawl]_vars

\* The spools a crawl can leave: at most n inserts into the empty table.
RECURSIVE SpoolsAfter(_)
SpoolsAfter(n) ==
    IF n = 0 THEN {<<>>}
    ELSE LET S == SpoolsAfter(n - 1)
         IN  S \cup {InsertArticleRecord(rows, ar) : rows \in S, ar \in ArticleRecords}

CrawledSpools == {rows \in SpoolsAfter(MaxRows) : Len(rows) > 0}

\* A session over a spool that the crawler has filled and no longer writes.
InitStatic ==
    /\ spool \in CrawledSpools /\ groups = CrawledGroups
    /\ rowIDCache = EmptyMap /\ now = 0
    /\ locals = EmptyMap
    /\ lastLine = <<>> /\ reply = <<>>
    /\ crashed = FALSE /\ lookup = NoLookup /\ producers = NoProducers
    /\ lookups = NoLookups /\ queriedAt = NeverQueried /\ peer = NoPeer /\ crawl = NoCrawl
    /\ SessionIdle /\ cancelled = FALSE

NextStatic == Serve(Parsed)

SpecStatic == InitStatic /\ [][NextStatic]_vars

\* A client that asks for new groups, on the spools a crawl can leave.
NextNews == DoNewGroups(NewsParsed) \/ DoGroup(NewsParsed)

SpecNews == InitStatic /\ [][NextNews]_vars

----------------------------------------------------------------------------
(* Properties of the command handlers *)

\* the step is the processor answering line
Answers(line) == lastLine' = line /\ spool' = spool /\ now' = now

InGroups(g) == \E i \in 1..Len(groups) : groups[i].name = g

GroupLine(g) == MkLine(cGROUP, <<g>>)
Numeral(n) == <<Digits[n + 1]>>
HeadLine(n) == MkLine(cHEAD, <<Numeral(n)>>)
StatLine(n) == MkLine(cSTAT, <<Numeral(n)>>)

\* the status lines that announce a multi-line reply
MultiLineStatus ==
    {"101 Capability list:", "215 list of newsgroups follows",
     "215 information follows", "211 %d %d %d list follows", "221 %d %s",
     "220 %d %s"}

NoSuchArticle == <<Line("423 No article with that number", <<>>)>>

\* C3: every multi-line reply ends with a line holding only "."; CAPABILITIES
\* writes "101 Capability list:", "READER", "VERSION" and then that line.
C3_DotTerminated ==
    [][/\ (spool' = spool /\ reply' # <<>> /\ reply'[1].fmt \in MultiLineStatus)
           => reply'[Len(reply')] = DotLine
       /\ Answers(cCAPABILITIES)
           => reply' = <<Line("101 Capability list:", <<>>), Line("READER", <<>>),
                         Line("VERSION", <<>>), DotLine>>]_vars

\* C4: GROUP g on a group of groups with c > 0 articles replies
\* "211 c-1 1 c g" and sets the current group to g and the current article
\* number to 1.
C4_GroupSelects ==
    [][\A g \in GroupNames :
          LET c == GroupArticleCount(spool, g) IN
          (Answers(GroupLine(g)) /\ InGroups(g) /\ c > 0)
          => /\ reply' = <<Line("211 %s", <<Line("%d %d %d %s", <<c - 1, 1, c, g>>)>>)>>
             /\ curGroup(locals') = g
             /\ curArticleNum(locals') = 1]_vars

\* GROUP g1 was answered for a group of two articles
C4_Witness ==
    /\ lastLine = GroupLine(G1)
    /\ GroupArticleCount(spool, G1) = 2
    /\ reply = <<Line("211 %s", <<Line("%d %d %d %s", <<1, 1, 2, G1>>)>>)>>
    /\ curGroup(locals) = G1 /\ curArticleNum(locals) = 1

\* C5: GROUP g on a group of groups with no article replies "211 1 0 1 g",
\* sets the current group to g and leaves the current article number 0,
\* whatever the session did before.
C5_EmptyGroupUnsetsArticle ==
    [][\A g \in GroupNames :
          (Answers(GroupLine(g)) /\ InGroups(g) /\ GroupArticleCount(spool, g) = 0)
          => /\ reply' = <<Line("211 %s", <<Line("%d %d %d %s", <<1, 0, 1, g>>)>>)>>
             /\ curGroup(locals') = g
             /\ curArticleNum(locals') = 0]_vars

\* C6: GROUP with a name that is no row of groups replies "411 No such
\* newsgroup", GROUP without argument replies "500 No group name provided",
\* and neither changes the current group or the current article number.
C6_GroupRejected ==
    [][/\ \A g \in {GX, <<>>} :
             (Answers(GroupLine(g)) /\ ~InGroups(g))
             => /\ reply' = <<Line("411 No such newsgroup", <<>>)>>
                /\ curGroup(locals') = curGroup(locals)
                /\ curArticleNum(locals') = curArticleNum(locals)
       /\ Answers(cGROUP)
             => /\ reply' = <<Line("500 No group name provided", <<>>)>>
                /\ curGroup(locals') = curGroup(locals)
                /\ curArticleNum(locals') = curArticleNum(locals)]_vars

\* GROUP gx was refused in a session that had selected g1
C6_Witness ==
    /\ lastLine = GroupLine(GX)
    /\ reply = <<Line("411 No such newsgroup", <<>>)>>
    /\ curGroup(locals) = G1 /\ curArticleNum(locals) = 1

\* the message-id of the n-th row of g in an ascending posted_at order
NthMsgIDs(g, n) ==
    {spool[GetRowIDs(spool, g, ord)[n]].message_id : ord \in PostedAtOrders(spool)}

\* C9: with g selected and the spool unchanged during the session, HEAD n
\* for 1 <= n <= count(g) replies "221 n <msg-id>" with the message-id of
\* the n-th row of g by posted_at, STAT n replies "223 n <msg-id>" with the
\* same message-id, and for n = 0 or n > count(g) both reply 423.
C9_NumberedLookup ==
    [][\A g \in GroupNames, n \in 0..2 :
          LET c == GroupArticleCount(spool, g) IN
          curGroup(locals) = g
          => /\ Answers(HeadLine(n))
                => IF 1 <= n /\ n <= c
                   THEN \E m \in NthMsgIDs(g, n) :
                           reply'[1] = Line("221 %d %s", <<n, m>>)
                   ELSE reply' = NoSuchArticle
             /\ Answers(StatLine(n))
                => IF 1 <= n /\ n <= c
                   THEN \E m \in NthMsgIDs(g, n) :
                           reply' = <<Line("223 %d %s", <<n, m>>)>>
                   ELSE reply' = NoSuchArticle]_vars

\* C10: STAT <id> replies 423 when no row of the spool has the message-id
\* and "223 0 <id>" when one has, and the session and the server go on.
C10_StatByMsgID ==
    [][\A m \in MsgIDs :
          Answers(MkLine(cSTAT, <<m>>))
          => /\ reply' = IF DoesMessageIDExist(spool, m)
                         THEN <<Line("223 0 %s", <<m>>)>>
                         ELSE NoSuchArticle
             /\ ~crashed' /\ ~SessionOver']_vars

\* no two rows of the spool have the same posted_at: ORDER BY posted_at
\* leaves no choice
DistinctPostedAt(rows) ==
    \A i, j \in 1..Len(rows) : i # j => rows[i].posted_at # rows[j].posted_at

\* C7: article numbers are stable: when number n of group g has identified
\* message-id m, then after any later inserts number n of g identifies m
\* (stated for spools whose rows differ in posted_at, where the order of
\* GetRowIDs is determined).
C7_NumbersStable ==
    [][(/\ DistinctPostedAt(spool')
        /\ lookup.err = "nil" /\ lookup'.err = "nil"
        /\ lookup'.group = lookup.group /\ lookup'.num = lookup.num)
       => lookup'.msgID = lookup.msgID]_vars

\* C8: ArticleNumToRowIDCached(g, n) returns rowIDs(g)[n-1] exactly when
\* 1 <= n <= |rowIDs(g)|, fails with a general error for n = 0, fails with
\* the ArticleNumNotFound sentinel for n beyond a non-empty list, and
\* returns no row id for an n out of range.
C8_ArticleNumToRowID ==
    lookup.err # "none"
    => LET n == lookup.num
           len == Len(lookup.rowIDs)
       IN  /\ lookup.err = "nil" <=> (1 <= n /\ n <= len)
           /\ lookup.err = "nil" => lookup.rowID = lookup.rowIDs[n]
           /\ n = 0 => lookup.err = "general"
           /\ (n > len /\ len > 0) => lookup.err = "ErrArticleNumNotFound"
           /\ lookup.err # "nil" => lookup.rowID = 0

\* number 2 of a group of two rows was looked up in a list that the cache
\* had kept while the clock advanced
C8_Witness ==
    /\ lookup.err = "nil" /\ lookup.num = 2 /\ Len(lookup.rowIDs) = 2
    /\ lookup.rowID = lookup.rowIDs[2]
    /\ now > 0 /\ MapLoad(rowIDCache, lookup.group).v.lastFetched = 0

\* C1: the processor takes the lines in the order the reader read them, and
\* the reply to a line is written completely before any part of the reply
\* to the next line.
C1_InOrder ==
    /\ \A i, j \in 1..Len(handled) : i < j => handled[i].idx < handled[j].idx
    /\ \A p, q \in 1..Len(out) : p < q => out[p].idx <= out[q].idx
    /\ \A k \in 1..Len(handled), q \in 1..Len(out) :
          out[q].idx > handled[k].idx
          => Cardinality({p \in 1..Len(out) : out[p].idx = handled[k].idx})
             = handled[k].parts

\* the three lines of the reply to CAPABILITIES are written, then the reply
\* to the second line
C1_Witness ==
    /\ Len(handled) = 2 /\ handled[1].parts = 3
    /\ Len(out) = 5
    /\ out[4].idx = handled[1].idx /\ out[5].idx = handled[2].idx

\* C2: on a connection whose context is not cancelled, the first line
\* written is "201 Posting prohibited", and it is written before any command
\* line is read or answered.
C2_GreetingFirst ==
    /\ out # <<>> => out[1] = [idx |-> 0, text |-> Line("201 Posting prohibited", <<>>)]
    /\ (nread > 0 \/ handled # <<>>) => out # <<>>

\* a command was read and answered after the greeting
C2_Witness ==
    /\ nread > 0 /\ Len(out) >= 2
    /\ out[1].text = Line("201 Posting prohibited", <<>>) /\ out[2].idx > 0

\* C11: STAT without argument or with a numeric argument, while no group is
\* selected, is answered with "412 No Newsgroup Selected" and nothing else.
C11_StatNeedsGroup ==
    [][curGroup(locals) = <<>>
       => \A line \in {cSTAT} \cup {StatLine(n) : n \in 0..2} :
             Answers(line)
             => reply' = <<Line("412 No Newsgroup Selected", <<>>)>>]_vars

\* C12: with a group selected, HEAD and ARTICLE with an argument that is
\* neither a message-id nor a decimal number reply 423.
C12_UnparsableArgument ==
    [][curGroup(locals) \in GroupNames
       => \A line \in {MkLine(cHEAD, << <<"x">> >>), MkLine(cARTICLE, << <<"x">> >>)} :
             Answers(line) => reply' = NoSuchArticle]_vars

ListGroupLine(g) == MkLine(cLISTGROUP, <<g>>)
ListGroupRangeLine(g, r) == MkLine(cLISTGROUP, <<g, r>>)

\* the reply "211 span min max list follows", the numbers, the "." line
ListGroupReply(span, min, max, nums) ==
    <<Line("211 %d %d %d list follows", <<span, min, max>>)>>
    \o [i \in 1..Len(nums) |-> Line("%d", <<nums[i]>>)]
    \o <<DotLine>>

\* the numbers from..to in ascending order
Ascending(from, to) == [i \in 1..(to - from + 1) |-> from + i - 1]

\* C13: LISTGROUP g without range, on a group of c >= 1 articles, replies
\* "211 c 1 c list follows" followed by the numbers 1..c in ascending order,
\* one per line.
C13_ListGroupAll ==
    [][\A g \in GroupNames :
          LET c == GroupArticleCount(spool, g) IN
          (Answers(ListGroupLine(g)) /\ c >= 1)
          => reply' = ListGroupReply(c, 1, c, Ascending(1, c))]_vars

\* the numbers of 1..c that the range argument r of the client selects
RangeSelects(r, c) ==
    IF r = <<"1">> THEN Ascending(1, 1)
    ELSE IF r = <<"2">> THEN (IF c >= 2 THEN Ascending(2, 2) ELSE <<>>)
    ELSE IF r = <<"1", "-">> THEN Ascending(1, c)
    ELSE Ascending(1, 1)

\* the numbers listed by a 211 reply
ListedNumbers(rep) == [i \in 1..(Len(rep) - 2) |-> rep[i + 1].args[1]]

\* C14: LISTGROUP g range, on a group of articles 1..c, lists exactly the
\* numbers of 1..c that satisfy the range (N, N- or N-M); a range that does
\* not parse is answered 403 and the session state is unchanged.
C14_ListGroupRange ==
    [][\A r \in RangeArgs :
          LET c == GroupArticleCount(spool, G1) IN
          (Answers(ListGroupRangeLine(G1, r)) /\ c >= 1)
          => IF r = <<"x", "-">>
             THEN /\ Len(reply') = 1
                  /\ reply'[1].fmt = "403 could not parse article range: %v"
                  /\ locals' = locals
             ELSE /\ reply'[1].fmt = "211 %d %d %d list follows"
                  /\ ListedNumbers(reply') = RangeSelects(r, c)]_vars

\* C15: LISTGROUP on a group of groups without articles, and LISTGROUP whose
\* range selects no article, reply "211 1 1 0 list follows" with an empty
\* payload.
C15_ListGroupEmpty ==
    [][/\ \A g \in GroupNames :
             (Answers(ListGroupLine(g)) /\ InGroups(g)
                /\ GroupArticleCount(spool, g) = 0)
             => reply' = ListGroupReply(1, 1, 0, <<>>)
       /\ \A r \in RangeArgs \ {<<"x", "-">>} :
             LET c == GroupArticleCount(spool, G1) IN
             (Answers(ListGroupRangeLine(G1, r)) /\ c >= 1
                /\ RangeSelects(r, c) = <<>>)
             => reply' = ListGroupReply(1, 1, 0, <<>>)]_vars

\* C16: a LISTGROUP that names a group and is answered 211 sets the current
\* group to it and the current article number to 1; LISTGROUP without
\* argument lists the current group, changes neither, and replies 412 when
\* no group is selected.
C16_ListGroupSelects ==
    [][/\ \A g \in GroupNames \cup {GX}, r \in RangeArgs \cup {<<>>} :
             LET line == IF r = <<>> THEN ListGroupLine(g)
                         ELSE ListGroupRangeLine(g, r)
             IN  (Answers(line) /\ reply'[1].fmt = "211 %d %d %d list follows")
                 => curGroup(locals') = g /\ curArticleNum(locals') = 1
       /\ Answers(cLISTGROUP)
             => /\ locals' = locals
                /\ IF curGroup(locals) = <<>>
                   THEN reply' = <<Line("412 No Newsgroup Selected", <<>>)>>
                   ELSE \E ord \in PostedAtOrders(spool) :
                           reply' = handleListGroup(curGroup(locals), ZeroRange,
                                                    ord).reply]_vars

\* LISTGROUP g2 was answered 211 in a session that had selected g1 before,
\* and selected g2
C16_Witness ==
    /\ lastLine = ListGroupLine(G2)
    /\ reply # <<>> /\ reply[1].fmt = "211 %d %d %d list follows"
    /\ curGroup(locals) = G2 /\ curArticleNum(locals) = 1
    /\ G1 \in DOMAIN rowIDCache

----------------------------------------------------------------------------
(* Callers of DB.InsertArticleRecord that run concurrently: the exists     *)
(* query and the INSERT are two statements, with no transaction and no     *)
(* lock around them.                                                       *)

\* INSERT fails on the UNIQUE constraint of column message_id
UniqueViolation(rows, ar) ==
    \E i \in 1..Len(rows) : rows[i].message_id = ar.message_id

\* a caller enters InsertArticleRecord(ar)
ProducerCall(p) ==
    /\ producers[p].pc = "idle"
    /\ \E ar \in ArticleRecords :
          producers' = [producers EXCEPT ![p] = [pc |-> "called", ar |-> ar,
                                                 err |-> FALSE]]
    /\ UNCHANGED <<spool, groups, rowIDCache, now, locals, lastLine, reply,
                   crashed, lookup, lookups, queriedAt, peer, crawl>>
    /\ UNCHANGED sessVars

\* db.DoesMessageIDExist(ar.MsgID); return nil when it exists
ProducerCheck(p) ==
    /\ producers[p].pc = "called"
    /\ producers' = [producers EXCEPT ![p].pc =
                        IF DoesMessageIDExist(spool, producers[p].ar.message_id)
                        THEN "idle" ELSE "inserting"]
    /\ UNCHANGED <<spool, groups, rowIDCache, now, locals, lastLine, reply,
                   crashed, lookup, lookups, queriedAt, peer, crawl>>
    /\ UNCHANGED sessVars

\* db.db.Exec(insertStmt, ...); its error is returned
ProducerInsert(p) ==
    /\ producers[p].pc = "inserting"
    /\ IF UniqueViolation(spool, producers[p].ar)
       THEN /\ spool' = spool
            /\ producers' = [producers EXCEPT ![p].pc = "idle", ![p].err = TRUE]
       ELSE /\ spool' = Append(spool, producers[p].ar)
            /\ producers' = [producers EXCEPT ![p].pc = "idle"]
    /\ UNCHANGED <<groups, rowIDCache, now, locals, lastLine, reply, crashed,
                   lookup, lookups, queriedAt, peer, crawl>>
    /\ UNCHANGED sessVars

NextInsert ==
    \E p \in Producers : ProducerCall(p) \/ ProducerCheck(p) \/ ProducerInsert(p)

SpecInsert == Init /\ [][NextInsert]_vars

\* C17: InsertArticleRecord of a record whose message_id is already in the
\* spool returns no error and leaves the number of rows and every row
\* unchanged, whatever the other fields of the record are.
C17_InsertIdempotent ==
    [][\A p \in Producers :
          (/\ producers[p].pc = "called" /\ producers'[p].pc # "called"
           /\ \E i \in 1..Len(spool) :
                 spool[i].message_id = producers[p].ar.message_id)
          => /\ producers'[p].pc = "idle" /\ ~producers'[p].err
             /\ spool' = spool]_vars

\* a call has returned without error for a record that has the message_id
\* of a row and another posted_at, and the row is as it was
C17_Witness ==
    \E p \in Producers :
       /\ producers[p].pc = "idle" /\ ~producers[p].err
       /\ Len(spool) = 1
       /\ producers[p].ar.message_id = spool[1].message_id
       /\ producers[p].ar.posted_at # spool[1].posted_at

\* C18: when two producers call InsertArticleRecord concurrently with the
\* same message_id, one row with that message_id ends up in the spool and
\* neither call reports an error.
C18_ConcurrentInsert ==
    /\ \A i, j \in 1..Len(spool) :
          i # j => spool[i].message_id # spool[j].message_id
    /\ \A p \in Producers : ~producers[p].err

----------------------------------------------------------------------------
(* The connection under the Go scheduler: a goroutine that can take a step *)
(* eventually takes it. The client and the owner of the context are under  *)
(* no such obligation.                                                     *)

SessionFairness ==
    /\ WF_vars(ProcessCancelled) /\ WF_vars(ProcessGreet) /\ WF_vars(ProcessSpawn)
    /\ WF_vars(ProcessRecvLine) /\ WF_vars(ProcessReturn)
    /\ WF_vars(ReaderRead) /\ WF_vars(ReaderReturn)
    /\ WF_vars(ProcessorRecv) /\ WF_vars(ProcessorWrite)
    /\ WF_vars(ProcessorNext) /\ WF_vars(ProcessorReturn)

SpecSessionFair == SpecSession /\ SessionFairness

\* the processor has taken a QUIT line
QuitTaken == cur.quit

\* C19: after a QUIT line is processed, "205 Connection closing" is written
\* (on a connection that takes the write), no later line is handled, and the
\* connection is eventually closed, whatever the client sent after QUIT.
C19_QuitCloses ==
    /\ [](QuitTaken /\ pr = "done" /\ ~connClosed /\ ~writeErr
          => \E q \in 1..Len(out) :
                out[q] = [idx |-> cur.idx,
                          text |-> Line("205 Connection closing", <<>>)])
    /\ [][QuitTaken => handled' = handled]_vars
    /\ (QuitTaken ~> connClosed)

\* C20: a failed write of a reply is fatal to the session: once a write has
\* failed, the processor handles no further command line.
C20_WriteErrorFatal ==
    [][writeErr => handled' = handled]_vars

\* C21: once the session's context is cancelled, wherever the reader, the
\* main loop and the processor stand, the main loop eventually returns and
\* the connection is closed.
C21_CancelCloses == cancelled ~> connClosed

----------------------------------------------------------------------------
(* Spool.GetRowIDsFromCache called by several sessions at once. Its steps  *)
(* are its accesses to what the callers share: the sync.Map, the clock and *)
(* the database.                                                           *)

\* the groups the concurrent callers look up
CachedGroups == {G1}

\* the caller returns (ids, err); lookup holds what the last call returned
Returned(c, hit, ids, err) ==
    /\ lookups' = [lookups EXCEPT ![c] = IdleLookup]
    /\ lookup' = [NoLookup EXCEPT !.group = lookups[c].group, !.rowIDs = ids,
                                  !.err = err, !.hit = hit]

\* the call: s.rowIDCache.Load(group) and the cacheHit test; a hit returns
\* entry.rowIDs
CacheLoad(c) ==
    /\ ServerStarted
    /\ lookups[c].pc = "idle"
    /\ \E group \in CachedGroups :
          LET l == MapLoad(rowIDCache, group)
          IN  IF cacheHit(l, now)
              THEN /\ lookups' = lookups
                   /\ lookup' = [NoLookup EXCEPT !.group = group,
                                                 !.rowIDs = l.v.rowIDs,
                                                 !.err = "nil", !.hit = TRUE]
              ELSE /\ lookups' = [lookups EXCEPT ![c].pc = "miss",
                                                 ![c].group = group]
                   /\ lookup' = lookup
    /\ UNCHANGED <<spool, groups, rowIDCache, now, locals, lastLine, reply,
                   crashed, producers, queriedAt, peer, crawl>>
    /\ UNCHANGED sessVars

\* fetchTime := time.Now()
CacheFetchTime(c) ==
    /\ lookups[c].pc = "miss"
    /\ lookups' = [lookups EXCEPT ![c].pc = "query", ![c].fetchTime = now]
    /\ UNCHANGED <<spool, groups, rowIDCache, now, locals, lastLine, reply,
                   crashed, lookup, producers, queriedAt, peer, crawl>>
    /\ UNCHANGED sessVars

\* rowIDs, err := s.db.GetRowIDs(group); on an error the call returns it
CacheQuery(c) ==
    /\ lookups[c].pc = "query"
    /\ \/ /\ \E ord \in PostedAtOrders(spool) :
                lookups' = [lookups EXCEPT
                               ![c].pc = "reload",
                               ![c].rowIDs = GetRowIDs(spool, lookups[c].group, ord),
                               ![c].qt = now]
          /\ lookup' = lookup
       \/ Returned(c, FALSE, <<>>, "general")
    /\ UNCHANGED <<spool, groups, rowIDCache, now, locals, lastLine, reply,
                   crashed, producers, queriedAt, peer, crawl>>
    /\ UNCHANGED sessVars

\* the second s.rowIDCache.Load(group) and the test
\* fetchTime.After(entry.lastFetched); without a Store the call returns
CacheReload(c) ==
    /\ lookups[c].pc = "reload"
    /\ LET l == MapLoad(rowIDCache, lookups[c].group)
       IN  IF ~l.ok \/ lookups[c].fetchTime > l.v.lastFetched
           THEN /\ lookups' = [lookups EXCEPT ![c].pc = "store"]
                /\ lookup' = lookup
           ELSE Returned(c, FALSE, lookups[c].rowIDs, "nil")
    /\ UNCHANGED <<spool, groups, rowIDCache, now, locals, lastLine, reply,
                   crashed, producers, queriedAt, peer, crawl>>
    /\ UNCHANGED sessVars

\* s.rowIDCache.Store(group, newEntry); return rowIDs, nil
CacheStore(c) ==
    /\ lookups[c].pc = "store"
    /\ rowIDCache' = MapStore(rowIDCache, lookups[c].group,
                              [rowIDs |-> lookups[c].rowIDs,
                               lastFetched |-> lookups[c].fetchTime])
    /\ queriedAt' = [queriedAt EXCEPT ![lookups[c].group] = lookups[c].qt]
    /\ Returned(c, FALSE, lookups[c].rowIDs, "nil")
    /\ UNCHANGED <<spool, groups, now, locals, lastLine, reply, crashed,
                   producers, peer, crawl>>
    /\ UNCHANGED sessVars

NextCache ==
    \/ CrawlerInsert \/ Tick
    \/ \E c \in Callers : \/ CacheLoad(c) \/ CacheFetchTime(c) \/ CacheQuery(c)
                          \/ CacheReload(c) \/ CacheStore(c)

\* the server runs on a spool of one article
InitCache == InitSession /\ cancelled = FALSE

SpecCache == InitCache /\ [][NextCache]_vars

\* C23: the lastFetched of the entry stored for a group never decreases,
\* whatever the interleaving of the lookups of the group.
C23_LastFetchedMonotone ==
    [][\A g \in DOMAIN rowIDCache :
          rowIDCache'[g].lastFetched >= rowIDCache[g].lastFetched]_vars

\* the stored entry for g is no older than ROWID_TTL
Fresh(g) ==
    g \in DOMAIN rowIDCache /\ now - rowIDCache[g].lastFetched <= ROWID_TTL

\* a call returns in this step
Returns == lookup' # lookup

\* C22: a lookup for g returns the stored entry's row ids, without a query,
\* exactly when an entry for g is stored that is no older than ROWID_TTL
\* (a stored entry's rowIDs is never nil); otherwise it goes on to query the
\* database, and a failed query returns the error and leaves the stored
\* entries unchanged.
C22_HitOrQuery ==
    [][/\ \A c \in Callers :
             lookups[c].pc = "idle" /\ lookups'[c].pc = "miss"
             => ~Fresh(lookups'[c].group)
       /\ Returns /\ lookup'.hit
          => /\ Fresh(lookup'.group)
             /\ lookup'.rowIDs = rowIDCache[lookup'.group].rowIDs
             /\ lookup'.err = "nil"
             /\ lookups' = lookups /\ rowIDCache' = rowIDCache
       /\ Returns /\ lookup'.err = "general"
          => /\ rowIDCache' = rowIDCache
             /\ \E c \in Callers : lookups[c].pc = "query"]_vars

\* a lookup was answered from an entry that is exactly ROWID_TTL old, with a
\* list the spool has outgrown
C22_Witness ==
    /\ lookup.hit /\ lookup.group = G1
    /\ G1 \in DOMAIN rowIDCache
    /\ now - rowIDCache[G1].lastFetched = ROWID_TTL
    /\ lookup.rowIDs = rowIDCache[G1].rowIDs
    /\ Len(lookup.rowIDs) < Len(spool)

\* C24: the row ids a lookup returns were read from the spool no earlier
\* than ROWID_TTL before the lookup: a hit returns a list queried at most
\* ROWID_TTL ago, a miss returns the list its own query read.
C24_BoundedStaleness ==
    [][Returns /\ lookup'.err = "nil"
       => IF lookup'.hit
          THEN queriedAt[lookup'.group] >= now - ROWID_TTL
          ELSE \E c \in Callers :
                  /\ lookups[c].pc \in {"reload", "store"}
                  /\ lookups'[c].pc = "idle"
                  /\ lookup'.rowIDs = lookups[c].rowIDs
                  /\ lookups[c].qt >= lookups[c].fetchTime]_vars

\* a hit has returned a list that was read before the last insert into the
\* group
C24_Witness ==
    /\ lookup.hit /\ lookup.group = G1
    /\ \A ord \in PostedAtOrders(spool) :
          lookup.rowIDs # GetRowIDs(spool, G1, ord)
    /\ now > queriedAt[G1]

ActiveArg == <<"A", "C", "T", "I", "V", "E">>

\* the line of LIST ACTIVE for a group of count articles
ActiveLine(name, count) ==
    Line("%s %d %d %s", <<name, IF count > 0 THEN count ELSE 1,
                          IF count > 0 THEN 1 ELSE 0, "n">>)

RECURSIVE Later(_, _)
Later(t, u) ==
    IF t = <<>> THEN FALSE
    ELSE IF t[1] # u[1] THEN t[1] > u[1]
    ELSE Later(Tail(t), Tail(u))

\* date and time arguments of NEWGROUPS that are well-formed, with the
\* instant each names
WellFormedSince ==
    {[args |-> <<D8a, TNoon>>, t |-> <<2024, 1, 1, 12, 0, 0>>],
     [args |-> <<D8a, TAfterNoon>>, t |-> <<2024, 1, 1, 12, 0, 1>>],
     [args |-> <<D8b, TNoon>>, t |-> <<2024, 1, 2, 12, 0, 0>>],
     [args |-> <<D6a, TNoon>>, t |-> <<2024, 1, 1, 12, 0, 0>>],
     [args |-> <<D6old, TNoon>>, t |-> <<1999, 1, 1, 12, 0, 0>>]}

\* a date of seven digits, a thirteenth month, a 29th of February 2023, a
\* time of four digits, a 24th hour
MalformedSince ==
    {<<D7, TNoon>>, <<DBadMonth, TNoon>>, <<DBadDay, TNoon>>, <<D8a, TShort>>,
     <<D8a, TBadHour>>}

CreatedAt(g) == IF g = G1 THEN CreatedG1 ELSE CreatedG2

\* C26: NEWGROUPS with a date of 6 or 8 digits and a time of 6 digits
\* answers "231 list of newsgroups follows" and the active-format lines of
\* exactly the groups created strictly after that UTC instant; a date of
\* another length or an unparsable date or time answers
\* "403 error parsing date format".
C26_NewGroups ==
    [][/\ \A w \in WellFormedSince :
             Answers(MkLine(cNEWGROUPS, w.args))
             => LET new == {i \in 1..Len(groups) :
                               Later(CreatedAt(groups[i].name), w.t)}
                IN  /\ Len(reply') = Cardinality(new) + 2
                    /\ reply'[1] = Line("231 list of newsgroups follows", <<>>)
                    /\ {reply'[k] : k \in 2..(Len(reply') - 1)}
                       = {ActiveLine(groups[i].name,
                                     Cardinality({r \in 1..Len(spool) :
                                         spool[r].newsgroup = groups[i].name})) :
                             i \in new}
                    /\ reply'[Len(reply')] = DotLine
       /\ \A a \in MalformedSince :
             Answers(MkLine(cNEWGROUPS, a))
             => reply' = <<Line("403 error parsing date format", <<>>)>>]_vars

\* NEWGROUPS since the second g1 was created has listed g2 and not g1
C26_Witness ==
    /\ lastLine = MkLine(cNEWGROUPS, <<D8a, TNoon>>)
    /\ Len(reply) = 3
    /\ reply[2].args[1] = G2

\* the row of the spool that holds message-id m
RowOf(m) == spool[CHOOSE i \in 1..Len(spool) : spool[i].message_id = m]

\* C27: the header block of an article, fetched by number or by message-id,
\* holds a "References:" line only if the article has a parent, and the line
\* then carries the parent's message-id.
C27_ReferencesOnlyForComments ==
    [][lastLine' # lastLine /\ spool' = spool
       /\ reply' # <<>> /\ reply'[1].fmt \in {"221 %d %s", "220 %d %s"}
       => LET refs == {k \in 1..Len(reply') : reply'[k].fmt = "References: %s"}
              parent == RowOf(reply'[1].args[2]).parent_id
          IN  IF parent = <<>> THEN refs = {}
              ELSE \E k \in refs : reply'[k].args = <<parent>>]_vars

\* the client lines of the commands that select nothing
NonSelectingLines ==
    {line \in ClientLines :
        Parsed[line].cmd \notin {cGROUP, cLISTGROUP, cQUIT}}

\* C28: CAPABILITIES, MODE, LIST, NEWGROUPS, HEAD, ARTICLE, STAT and unknown
\* commands leave the current group and the current article number as they
\* were, whatever their arguments and their outcome.
C28_OnlyGroupSelects ==
    [][lastLine' \in NonSelectingLines /\ spool' = spool
       => /\ curGroup(locals') = curGroup(locals)
          /\ curArticleNum(locals') = curArticleNum(locals)]_vars

\* HEAD 1 was answered with the header in a session that has g1 and article
\* 1 selected
C28_Witness ==
    /\ lastLine = HeadLine(1)
    /\ reply # <<>> /\ reply[1].fmt = "221 %d %s"
    /\ curGroup(locals) = G1 /\ curArticleNum(locals) = 1

\* line i of the input has been read and its reply is not yet complete
InFlight(i) ==
    /\ i <= nread /\ input[i] # <<>>
    /\ \/ \A k \in 1..Len(handled) : handled[k].idx # i
       \/ pr = "write" /\ cur.idx = i

\* C29: at most one line has been read from the connection and not yet
\* completely processed.
C29_OneLineInFlight ==
    Cardinality({i \in 1..Len(input) : InFlight(i)}) <= 1

----------------------------------------------------------------------------
(* Two connections: acceptorLoop gives each its own Server; both run     *)
(* processLoop over the one spool.                                        *)

\* the lines of the two clients: GROUP and LISTGROUP, with and without a
\* group, and HEAD with a message-id
TwoParsed ==
    ParsedLines(GroupLines
                \cup {MkLine(cLISTGROUP, a) : a \in {<<>>, <<G1>>, <<G2>>}}
                \cup {MkLine(cHEAD, <<m>>) : m \in MsgIDs})

\* the map the second Server's locals field points to
PeerLocals == IF peer.shared THEN locals ELSE peer.locals

\* acceptorLoop: a second client connects
Accept ==
    /\ ServerStarted /\ ~crashed
    /\ ~peer.accepted
    /\ peer' = NewServer
    /\ UNCHANGED <<spool, groups, rowIDCache, now, locals, lastLine, reply,
                   crashed, lookup, producers, lookups, queriedAt, crawl>>
    /\ UNCHANGED sessVars

\* acceptorLoop when Accept returns an error: the error is logged and the
\* loop body goes on with the nil connection
AcceptError ==
    /\ ServerStarted /\ ~crashed
    /\ ~peer.accepted
    /\ peer' = [NewServer EXCEPT !.nilConn = TRUE]
    /\ UNCHANGED <<spool, groups, rowIDCache, now, locals, lastLine, reply,
                   crashed, lookup, producers, lookups, queriedAt, crawl>>
    /\ UNCHANGED sessVars

\* Server.Process of the second connection writes the greeting; the write
\* to a nil connection is a nil dereference, which ends the process
PeerGreet ==
    /\ ~crashed
    /\ peer.accepted /\ ~peer.greeted
    /\ IF peer.nilConn
       THEN crashed' = TRUE /\ peer' = peer
       ELSE crashed' = FALSE /\ peer' = [peer EXCEPT !.greeted = TRUE]
    /\ UNCHANGED <<spool, groups, rowIDCache, now, locals, lastLine, reply,
                   lookup, producers, lookups, queriedAt, crawl>>
    /\ UNCHANGED sessVars

\* the second processor leaves l in the map its locals field points to
PeerStores(l) ==
    /\ IF peer.shared
       THEN locals' = l /\ peer' = peer
       ELSE locals' = locals /\ peer' = [peer EXCEPT !.locals = l]
    /\ UNCHANGED <<spool, groups, rowIDCache, now, lastLine, reply,
                   crashed, lookup, producers, lookups, queriedAt, crawl>>
    /\ UNCHANGED sessVars

\* the GROUP case of the second connection's processLoop, and handleGroup
PeerGroup ==
    /\ peer.greeted /\ ~crashed
    /\ \E line \in LinesOf(TwoParsed, cGROUP) :
          LET args == TwoParsed[line].args
              newsgroups == FetchNewsgroups(groups)
          IN  IF Len(args) < 1
              THEN PeerStores(PeerLocals)
              ELSE IF ~(\E i \in 1..Len(newsgroups) : args[1] = newsgroups[i])
              THEN PeerStores(PeerLocals)
              ELSE LET l1 == setCurGroup(PeerLocals, args[1])
                   IN  PeerStores(IF GroupArticleCount(spool, args[1]) # 0
                                  THEN setCurArticleNum(l1, 1) ELSE l1)

\* the LISTGROUP case of the second connection's processLoop
PeerListGroup ==
    /\ peer.greeted /\ ~crashed
    /\ \E line \in LinesOf(TwoParsed, cLISTGROUP), ord \in PostedAtOrders(spool) :
          LET args == TwoParsed[line].args
              explicitGroup == ~(Len(args) < 1)
              group == IF explicitGroup THEN args[1] ELSE curGroup(PeerLocals)
              p == IF Len(args) >= 2 THEN parseArticleRange(args[2])
                   ELSE [err |-> FALSE, rng |-> ZeroRange]
          IN  IF group = <<>> \/ p.err
              THEN PeerStores(PeerLocals)
              ELSE LET r == handleListGroup(group, p.rng, ord)
                   IN  IF ~r.err /\ explicitGroup
                       THEN PeerStores(setCurArticleNum(
                                setCurGroup(PeerLocals, group), r.first))
                       ELSE PeerStores(PeerLocals)

NextTwo ==
    \/ Accept \/ AcceptError \/ PeerGreet \/ PeerGroup \/ PeerListGroup
    \/ DoGroup(TwoParsed) \/ DoListGroup(TwoParsed) \/ DoHead(TwoParsed)

SpecTwo == InitStatic /\ [][NextTwo]_vars

\* C30: a GROUP or LISTGROUP of one connection never changes the current
\* group or the current article number that the commands of the other
\* connection read.
C30_SessionStateNotShared ==
    [][/\ PeerGroup \/ PeerListGroup
          => /\ curGroup(locals') = curGroup(locals)
             /\ curArticleNum(locals') = curArticleNum(locals)
       /\ DoGroup(TwoParsed) \/ DoListGroup(TwoParsed)
          => /\ curGroup(PeerLocals') = curGroup(PeerLocals)
             /\ curArticleNum(PeerLocals') = curArticleNum(PeerLocals)]_vars

\* both connections have selected a group, and not the same one
C30_Witness ==
    /\ peer.accepted
    /\ curGroup(locals) = G1 /\ curArticleNum(locals) = 1
    /\ curGroup(PeerLocals) = G2

----------------------------------------------------------------------------
(* Populating the spool: main's loop over the configured subreddits,      *)
(* Spool.FetchSubreddit with its addPostAndComments goroutine, and        *)
(* Spool.AddGroupMetadata.                                                *)

\* the posts of one subreddit that reach the spool in one run, at most
MaxPosts == 1

\* the prefix row of table config
ConfigPrefix == <<"r">>

ToLowerChar(c) ==
    IF \E i \in 1..Len(Upper) : Upper[i] = c
    THEN Lower[CHOOSE i \in 1..Len(Upper) : Upper[i] = c]
    ELSE c

ToLower(s) == [i \in 1..Len(s) |-> ToLowerChar(s[i])]

\* fmt.Sprintf("%s.%s", prefix, strings.ToLower(name))
GroupNameOf(prefix, name) == prefix \o <<".">> \o ToLower(name)

\* time.Now() as a calendar time: the clock counts seconds from noon
TimeNow == <<2024, 1, 1, 12, 0, now>>

\* the article postToArticle makes of the post of subreddit i
postToArticle(i, prefix) ==
    [posted_at |-> 1, newsgroup |-> GroupNameOf(prefix, Subreddits[i]),
     message_id |-> IF i = 1 THEN M1 ELSE M2, parent_id |-> <<>>]

\* Spool.Prefix: the cached field, or the row of table config, which it caches
SpoolPrefix == IF crawl.prefix # <<>> THEN crawl.prefix ELSE ConfigPrefix

CrawlStep(c) ==
    /\ crawl' = c
    /\ UNCHANGED <<rowIDCache, now, locals, lastLine, reply, lookup,
                   producers, lookups, queriedAt, peer>>
    /\ UNCHANGED sessVars

\* main enters FetchSubreddit for the next subreddit: NewPosts delivers
\* the posts, and addPostAndComments is started
FetchSubreddit ==
    /\ ~crashed
    /\ crawl.main = "idle" /\ crawl.sub < Len(Subreddits)
    /\ \E n \in 0..MaxPosts :
          CrawlStep([crawl EXCEPT !.sub = @ + 1, !.main = "send", !.posts = n,
                                  !.adders[crawl.sub + 1] = "prefix"])
    /\ UNCHANGED <<spool, groups, crashed>>

\* addPostAndComments calls s.Prefix() and reaches its range loop; the
\* loop ends at once when the channel is closed already
AdderPrefix(i) ==
    /\ ~crashed
    /\ crawl.adders[i] = "prefix"
    /\ CrawlStep([crawl EXCEPT !.prefix = SpoolPrefix,
                    !.adders[i] = IF crawl.sub = i /\ crawl.main = "send"
                                  THEN "range" ELSE "exit"])
    /\ UNCHANGED <<spool, groups, crashed>>

\* FetchSubreddit hands a post to addPostAndComments, which inserts it
AdderInsert ==
    /\ ~crashed
    /\ crawl.main = "send" /\ crawl.posts > 0
    /\ crawl.adders[crawl.sub] = "range"
    /\ LET a == postToArticle(crawl.sub, crawl.prefix)
       IN  /\ Len(spool) < MaxRows \/ DoesMessageIDExist(spool, a.message_id)
           /\ spool' = InsertArticleRecord(spool, a)
    /\ CrawlStep([crawl EXCEPT !.posts = @ - 1])
    /\ UNCHANGED <<groups, crashed>>

\* FetchSubreddit returns: every post is in the spool, the channel is closed
FetchReturn ==
    /\ ~crashed
    /\ crawl.main = "send" /\ crawl.posts = 0
    /\ CrawlStep([crawl EXCEPT !.main = "meta",
                    !.adders[crawl.sub] = IF @ = "range" THEN "exit" ELSE @])
    /\ UNCHANGED <<spool, groups, crashed>>

\* a goroutine may be storing Spool.prefix while main reads it
PrefixRace ==
    /\ crawl.prefix = <<>>
    /\ \E i \in 1..Len(Subreddits) : crawl.adders[i] = "prefix"

\* Spool.AddGroupMetadata, called by main after FetchSubreddit.  It reads
\* the field Spool.prefix.  A read that races with the store of the field
\* yields the old value, the new value, or a string header made of both,
\* which ends the process.
AddGroupMetadata ==
    /\ ~crashed
    /\ crawl.main = "meta"
    /\ CrawlStep([crawl EXCEPT !.main = IF crawl.sub < Len(Subreddits)
                                        THEN "idle" ELSE "done"])
    /\ \/ /\ groups' = InsertGroupMetadata(groups,
                  [name |-> GroupNameOf(crawl.prefix, Subreddits[crawl.sub]),
                   date_created |-> FormatRFC3339(TimeNow),
                   days_retained |-> 30])
          /\ UNCHANGED <<spool, crashed>>
       \/ /\ PrefixRace
          /\ crashed' = TRUE
          /\ UNCHANGED <<spool, groups>>

\* the process has ended; a later run opens the spool anew
CrawlAgain ==
    /\ ~crashed
    /\ crawl.main = "done"
    /\ CrawlStep(NoCrawl)
    /\ UNCHANGED <<spool, groups, crashed>>

\* the spool after --init: no article, no group
InitCrawl ==
    /\ spool = <<>> /\ groups = <<>>
    /\ rowIDCache = EmptyMap /\ now = 0
    /\ locals = EmptyMap
    /\ lastLine = <<>> /\ reply = <<>>
    /\ crashed = FALSE /\ lookup = NoLookup /\ producers = NoProducers
    /\ lookups = NoLookups /\ queriedAt = NeverQueried /\ peer = NoPeer
    /\ crawl = NoCrawl
    /\ SessionIdle /\ cancelled = FALSE

NextCrawlRun ==
    \/ FetchSubreddit \/ AdderInsert \/ FetchReturn \/ AddGroupMetadata
    \/ CrawlAgain \/ Tick
    \/ \E i \in 1..Len(Subreddits) : AdderPrefix(i)

SpecCrawlRun == InitCrawl /\ [][NextCrawlRun]_vars

\* the names of the rows of groups
GroupRowNames == {groups[i].name : i \in 1..Len(groups)}

\* C31: InsertGroupMetadata for a name that groups holds adds no row and
\* leaves every stored row as it is; a row is added only for a new name.
C31_GroupMetadataIdempotent ==
    [][/\ Len(groups') >= Len(groups)
       /\ \A i \in 1..Len(groups) : groups'[i] = groups[i]
       /\ Len(groups') <= Len(groups) + 1
       /\ Len(groups') = Len(groups) + 1
          => groups'[Len(groups')].name \notin GroupRowNames]_vars

\* main has added the metadata of a subreddit a second time, later
C31_Witness ==
    /\ crawl.main = "idle" /\ crawl.sub = 1
    /\ Len(groups) = 2
    /\ groups[1].name = GroupNameOf(ConfigPrefix, Subreddits[1])
    /\ groups[2].name = GroupNameOf(ConfigPrefix, Subreddits[2])
    /\ groups[1].date_created # FormatRFC3339(TimeNow)

\* C33: every name in groups is the configured prefix, a dot, and the
\* lower-case name of a subreddit.
C33_GroupNamesPrefixed ==
    \A i \in 1..Len(groups) :
        \E j \in 1..Len(Subreddits) :
            groups[i].name = ConfigPrefix \o <<".">> \o ToLower(Subreddits[j])

\* the row ids of group g by posted_at, rows of equal posted_at in
\* insertion order
StableRowIDs(rows, g) ==
    SortSeq(SelectSeq([i \in 1..Len(rows) |-> i],
                      LAMBDA id : rows[id].newsgroup = g),
            LAMBDA a, b : \/ rows[a].posted_at < rows[b].posted_at
                          \/ rows[a].posted_at = rows[b].posted_at /\ a < b)

\* C32: the list a call of GetRowIDs(g) returns is the row ids of the rows
\* of g in ascending posted_at, rows of equal posted_at in insertion order.
C32_RowIDsStable ==
    [][\A c \in Callers :
          lookups[c].pc = "query" /\ lookups'[c].pc = "reload"
          => lookups'[c].rowIDs = StableRowIDs(spool, lookups[c].group)]_vars

\* C34: with no group selected and the message-id m in the spool, HEAD m
\* is answered "221 0 m" and ARTICLE m is answered "220 0 m".
C34_MsgIDNeedsNoGroup ==
    [][\A m \in MsgIDs :
          curGroup(locals) = <<>> /\ DoesMessageIDExist(spool, m)
          => /\ Answers(MkLine(cHEAD, <<m>>))
                => reply' # <<>> /\ reply'[1] = Line("221 %d %s", <<0, m>>)
             /\ Answers(MkLine(cARTICLE, <<m>>))
                => reply' # <<>> /\ reply'[1] = Line("220 %d %s", <<0, m>>)]_vars

\* C35: a session is started only on a connection that Accept delivered.
C35_NoSessionOnFailedAccept == ~(peer.accepted /\ peer.nilConn)

\* the formats of the lines of a multi-line body and of its "." line
BodyFormats ==
    {"", "%d", "%d %d %d %s", "%s", "%s %d %d %s", ".", "Date: %s",
     "Message-ID: %s", "Newsgroups: %s", "Path: reddit!not-for-mail",
     "READER", "References: %s", "VERSION"}

\* the positions of the status lines of a reply
StatusLinesOf(w) == {i \in 1..Len(w) : w[i].fmt \notin BodyFormats}

\* C36: the reply to a handled command line holds exactly one status line,
\* which is its first line.
C36_OneReply ==
    [][lastLine' \in ClientLines /\ spool' = spool /\ ~crashed'
       => StatusLinesOf(reply') = {1}]_vars

\* C37: the current group is empty or the name of a row of groups (so a
\* LISTGROUP that names an unknown group and is answered 411 or 500 has not
\* selected it).
C37_CurrentGroupExists ==
    curGroup(locals) # <<>> => DoesGroupMetadataExist(groups, curGroup(locals))

\* C38: every number 1..c of a "GROUP g" answered with count c > 0 is
\* retrievable by the HEAD or STAT that follows it in the session.
C38_GroupCountRetrievable ==
    [][\A g \in GroupNames, n \in 1..MaxRows :
          LET c == GroupArticleCount(spool, g) IN
          (/\ lastLine = GroupLine(g)
           /\ reply = <<Line("211 %s", <<Line("%d %d %d %s", <<c - 1, 1, c, g>>)>>)>>
           /\ c > 0 /\ n <= c)
          => /\ Answers(HeadLine(n))
                => reply' # <<>> /\ reply'[1].fmt = "221 %d %s"
             /\ Answers(StatLine(n))
                => reply' # <<>> /\ reply'[1].fmt = "223 %d %s"]_vars

\* C39: while a second session is open, nothing the first client sends
\* ends the process that serves it.
C39_OtherSessionsSurvive == peer.greeted => ~crashed

\* C40: once the main loop of a session has returned, the reader and the
\* processor it started both terminate.
C40_GoroutinesTerminate ==
    (mn = "done") ~> (rd \in {"off", "done"} /\ pr \in {"off", "done"})

====
